---- MODULE Spec2Model ----
(***************************************************************************)
(* Model of the leanclient protocol engine.                                *)
(*                                                                         *)
(* Part I  : LSPFileManager (leanclient/file_manager.py): the per-file     *)
(*           synchronisation state machine, the opened-file cache and its  *)
(*           eviction, the close handshake and the diagnostics wait.  One  *)
(*           caller thread runs the public operations; the reader thread   *)
(*           runs the two permanent notification handlers.  Steps are the  *)
(*           sections the code runs under _opened_files_lock.              *)
(* Part II : BaseLeanLSPClient (leanclient/base_client.py): the asyncio    *)
(*           message pump, the pending-request table and close(), and the  *)
(*           file tables behind its open_files and close_files.            *)
(***************************************************************************)
EXTENDS Integers, Sequences, FiniteSets, TLC

(***************************************************************************)
(* Bounds and configuration                                                *)
(***************************************************************************)
\* Paths of files that exist in the project directory.
Paths == {"a", "b", "c"}
\* A path for which there is no file on disk.
NoFile == "nofile"
AllPaths == Paths \cup {NoFile}
\* The only file that other programs rewrite on disk while it is open.
EditablePaths == {"a"}
\* File contents.
Texts == {"t0", "t1"}
\* LSPFileManager(max_opened_files=...)
max_opened_files == 2
\* Versions are capped: no edit is made to a file at version MaxVersion.
MaxVersion == 2
\* Diagnostic lists the server publishes: none, an ordinary one, and the
\* severity-1 "Imports are out of date" diagnostic.
Diags == {<<>>, <<"sorry">>, <<"stale">>}
\* Value of params.get("version", -2) when the notification has no version.
NoVersion == -2
\* Request ids: secrets.randbits(64) draws from MaxIds values.
MaxIds == 2
Ids == 1..MaxIds
\* Messages the stdout pipe holds before the server has to wait.
MaxQueue == 2
\* Largest max_retries passed to send_request_retry.
MaxRetries == 2
\* Most requests one send_request_retry call is followed through.
MaxRequests == 6
\* Most items passed to one map call of the pool, and most workers.
MaxItems == 3
MaxWorkers == 2

(***************************************************************************)
(* State                                                                   *)
(***************************************************************************)
VARIABLES
    opened_files,   \* keys of self.opened_files, in dict (insertion) order
    states,         \* the FileState of every key of self.opened_files
    disk,           \* content of each existing file on disk
    srv_max,        \* highest document version sent to the server per path
    pc,             \* position of the caller thread
    stack,          \* positions the caller thread returns to
    loc,            \* local variables of the caller thread's frames
    result,         \* outcome of the caller's last top-level call
    sent,           \* notifications the caller thread wrote during the call
    reader_pc,      \* position of the reader thread inside a handler
    reader_path,    \* path of the notification the reader is handling
    updates,        \* update_file calls applied to a path since it was opened
    rebuilds,       \* stale-import rebuilds applied to a path since opened
    requested,      \* paths requested through open_files, least recent first
    rerequested,    \* some open_files call named a path it found tracked
    process,        \* the language server subprocess: running or exited
    stdout,         \* messages the server wrote that were not read yet
    stdout_eof,     \* the server's end of the stdout pipe is closed
    stdin,          \* the pipe to the server: open, or lost with the server
    inbox,          \* ids of the requests the server has not answered yet
    pending,        \* keys of self.pending
    futures,        \* state of the future made for each request id
    callers,        \* where the coroutine that sent each request id is
    last_send,      \* how the last send_request_rpc call got through its write
    stdout_task,    \* the task running _run_stdout
    stderr_task,    \* the task running _run_stderr
    close_pc,       \* where the coroutine that called close() is
    pending_at_close, \* keys of self.pending when close() was last called
    files_finished, \* keys of BaseLeanLSPClient.files_finished, oldest first
    files_content,  \* keys of BaseLeanLSPClient.files_content
    files_diagnostics, \* keys of BaseLeanLSPClient.files_diagnostics
    files_last_update, \* keys of BaseLeanLSPClient.files_last_update
    client_sent,    \* notifications of the last file call on the base client
    client_result,  \* how the last file call on the base client ended
    retry,          \* the locals of a running send_request_retry call
    lean,           \* the document the language server is working on, per path
    pool,           \* the worker pool and its running map call
    other,          \* a second caller thread, running close_files
    close_condition \* _opened_files_lock and the condition built on it

\* The state of LSPFileManager, and the state of BaseLeanLSPClient's pump.
manager_vars ==
    <<opened_files, states, disk, srv_max, pc, stack, loc, result, sent,
      reader_pc, reader_path, updates, rebuilds, requested, rerequested>>

client_vars ==
    <<process, stdout, stdout_eof, stdin, inbox, pending, futures, callers,
      last_send, stdout_task, stderr_task, close_pc, pending_at_close>>

\* The state of a close() call made by the user.
close_vars == <<close_pc, pending_at_close>>

\* The file tables of BaseLeanLSPClient.
table_vars ==
    <<files_finished, files_content, files_diagnostics, files_last_update,
      client_sent, client_result>>

vars ==
    <<manager_vars, client_vars, table_vars, retry, lean, pool, other,
      close_condition>>

(***************************************************************************)
(* Sequence helpers                                                        *)
(***************************************************************************)
Range(s) == {s[i] : i \in 1..Len(s)}

Without(s, S) == SelectSeq(s, LAMBDA x : x \notin S)

Prefix(s, n) == SubSeq(s, 1, IF n < Len(s) THEN n ELSE Len(s))

Max(a, b) == IF a >= b THEN a ELSE b

\* p in self.opened_files
Tracked(p) == p \in Range(opened_files)

\* Mutant of DictSet: a new key goes first.
DictSet_Front(keys, p) == IF p \in Range(keys) THEN keys ELSE <<p>> \o keys

\* self.opened_files[p] = ... : a new key goes last, an old key keeps its place
DictSet(keys, p) == IF p \in Range(keys) THEN keys ELSE Append(keys, p)

(***************************************************************************)
(* FileState                                                               *)
(***************************************************************************)
FileState(txt) ==
    [content |-> txt,
     version |-> 0,
     diagnostics |-> <<>>,
     diagnostics_version |-> -1,
     processing |-> TRUE,
     error |-> "None",
     fatal_error |-> FALSE,
     complete |-> FALSE,
     close_pending |-> FALSE,
     close_ready |-> FALSE,
     dependency_rebuild_attempted |-> FALSE,
     last_activity |-> "recent"]

\* Value kept in states for a path that is not a key of opened_files.
NoState == FileState("")

\* Mutant of reset_after_change: a recorded error outlives the change.
reset_after_change_KeepsError(s) ==
    [s EXCEPT !.diagnostics = <<>>,
              !.diagnostics_version = s.version - 1,
              !.processing = TRUE,
              !.fatal_error = FALSE,
              !.complete = FALSE,
              !.close_pending = FALSE,
              !.close_ready = FALSE,
              !.last_activity = "recent"]

reset_after_change(s) ==
    [s EXCEPT !.diagnostics = <<>>,
              !.diagnostics_version = s.version - 1,
              !.processing = TRUE,
              !.error = "None",
              !.fatal_error = FALSE,
              !.complete = FALSE,
              !.close_pending = FALSE,
              !.close_ready = FALSE,
              !.last_activity = "recent"]

\* apply_changes_to_text for the change lists the model uses: each change
\* replaces the whole document, the last one wins, no change keeps the text.
apply_changes_to_text(text, changes) ==
    IF changes = <<>> THEN text ELSE changes[Len(changes)]

ChangeLists == {<<>>} \cup {<<t>> : t \in Texts}

(***************************************************************************)
(* Caller-thread locals                                                    *)
(***************************************************************************)
NoLoc ==
    [op |-> "none",
     paths |-> <<>>, new_files |-> <<>>, already_open |-> <<>>,
     sync_rest |-> <<>>, new_rest |-> <<>>,
     force_reopen |-> FALSE, removable |-> <<>>,
     close_paths |-> <<>>, blocking |-> FALSE, timed_out |-> FALSE,
     gd_path |-> "", need_to_wait |-> FALSE,
     target_version |-> 0, future |-> "none", gave_up |-> FALSE]

NoResult == [status |-> "none", value |-> <<>>]

\* The second caller thread is not in a call.
NoCall == [pc |-> "idle", path |-> "", result |-> "none"]

\* threading.Lock() and threading.Condition(lock) after __init__: nobody
\* owns the lock, nobody waits on the condition, and the reader thread is
\* in no handler.
Unlocked ==
    [owner |-> "none", reader |-> "idle", notify_close |-> FALSE,
     waiting |-> FALSE, notified |-> FALSE, deadline_passed |-> FALSE]

\* No map call is running on the pool.
NoMap ==
    [pc |-> "idle", items |-> <<>>, batch_size |-> 1, num_workers |-> 1,
     chunks |-> {}, running |-> <<>>, done |-> <<>>, returned |-> <<>>]

\* The server has no document for a path.
NoDoc == [version |-> -1, text |-> "", phase |-> "none"]

\* No send_request_retry call is running.
NoRetry ==
    [pc |-> "idle", impl |-> "none", max_retries |-> 0,
     prev_results |-> "Nvr_gnn_gv_y_p", retry_count |-> 0,
     results |-> "none", history |-> <<>>]

Init ==
    /\ opened_files = <<>>
    /\ states = [p \in Paths |-> NoState]
    /\ disk = [p \in Paths |-> "t0"]
    /\ srv_max = [p \in Paths |-> -1]
    /\ pc = "idle"
    /\ stack = <<>>
    /\ loc = NoLoc
    /\ result = NoResult
    /\ sent = <<>>
    /\ reader_pc = "idle"
    /\ reader_path = ""
    /\ updates = [p \in Paths |-> 0]
    /\ rebuilds = [p \in Paths |-> 0]
    /\ requested = <<>>
    /\ rerequested = FALSE
    /\ process = "running"
    /\ stdout = <<>>
    /\ stdout_eof = FALSE
    /\ stdin = "open"
    /\ inbox = {}
    /\ pending = {}
    /\ futures = [id \in Ids |-> "none"]
    /\ callers = [id \in Ids |-> "none"]
    /\ last_send = "none"
    /\ stdout_task = "reading"
    /\ stderr_task = "reading"
    /\ close_pc = "idle"
    /\ pending_at_close = {}
    /\ files_finished = <<>>
    /\ files_content = {}
    /\ files_diagnostics = {}
    /\ files_last_update = {}
    /\ client_sent = <<>>
    /\ client_result = "none"
    /\ retry = NoRetry
    /\ lean = [p \in Paths |-> NoDoc]
    /\ pool = NoMap
    /\ other = NoCall
    /\ close_condition = Unlocked

(***************************************************************************)
(* Caller-thread control                                                   *)
(***************************************************************************)
\* The running operation returns to its caller: to the frame below it, or,
\* for a top-level call, to the user with status ok.
ReturnTo(stk) ==
    IF stk = <<>>
    THEN /\ pc' = "done"
         /\ stack' = <<>>
         /\ result' = [status |-> "ok", value |-> <<>>]
    ELSE /\ pc' = Head(stk)
         /\ stack' = Tail(stk)
         /\ result' = result

\* The running operation raises: the exception unwinds every frame.
Raise(exc) ==
    /\ pc' = "done"
    /\ stack' = <<>>
    /\ result' = [status |-> exc, value |-> <<>>]

\* self._send_notification(method, ...) on the caller thread.
Notification(method, p, v) == [method |-> method, path |-> p, version |-> v]

(***************************************************************************)
(* update_file                                                             *)
(***************************************************************************)
\* Mutant of UpdatedState: the version is not incremented.
UpdatedState_SameVersion(s, changes) ==
    reset_after_change(
        [s EXCEPT !.content = apply_changes_to_text(s.content, changes)])

\* The locked section of update_file: new content, version + 1, reset.
UpdatedState(s, changes) ==
    reset_after_change(
        [s EXCEPT !.content = apply_changes_to_text(s.content, changes),
                  !.version = s.version + 1])

\* Mutant of FileNotOpen: update_file takes every path for an open one.
FileNotOpen_Never(p) == FALSE

\* "if path not in self.opened_files" at the head of update_file
FileNotOpen(p) == ~Tracked(p)

\* update_file(path, changes) called by the user.
update_file(p, changes) ==
    /\ pc = "idle"
    /\ IF FileNotOpen(p)
       THEN /\ Raise("FileNotFoundError")
            /\ UNCHANGED <<states, srv_max, sent, updates>>
       ELSE /\ states[p].version < MaxVersion
            /\ states' = [states EXCEPT ![p] = UpdatedState(states[p], changes)]
            /\ srv_max' = [srv_max EXCEPT ![p] = Max(@, states[p].version + 1)]
            /\ sent' = Append(sent,
                   Notification("textDocument/didChange", p, states[p].version + 1))
            /\ updates' = [updates EXCEPT ![p] = @ + 1]
            /\ ReturnTo(<<>>)
    /\ UNCHANGED <<opened_files, disk, loc, reader_pc, reader_path, rebuilds,
                   requested,
                   rerequested, client_vars, table_vars, retry, lean, pool, other,
                   close_condition>>

(***************************************************************************)
(* Notification handlers (reader thread)                                   *)
(***************************************************************************)
\* Mutant of VersionIsCurrent: the version comparison is dropped.
VersionIsCurrent_Always(s, diag_version) == TRUE

\* "Only update if diagnostics version is current or newer"
VersionIsCurrent(s, diag_version) == diag_version >= s.diagnostics_version

\* has_error = state.error is not None
HasError(s) == s.error # "None"

\* A severity-1 "Imports are out of date" diagnostic is in the list.
ImportsOutOfDate(diagnostics) ==
    \E i \in 1..Len(diagnostics) : diagnostics[i] = "stale"

\* The FileState after the locked section of handle_publish_diagnostics.
PublishedState(s, diagnostics, diag_version) ==
    IF VersionIsCurrent(s, diag_version) /\ ~HasError(s)
    THEN [s EXCEPT !.diagnostics = diagnostics,
                   !.diagnostics_version = diag_version,
                   !.last_activity = "recent",
                   !.close_ready =
                       IF s.close_pending /\ diagnostics = <<>> THEN TRUE ELSE @,
                   !.dependency_rebuild_attempted =
                       IF ImportsOutOfDate(diagnostics) THEN TRUE ELSE @]
    ELSE s

\* needs_rebuild at the end of the locked section.
NeedsRebuild(s, diagnostics, diag_version) ==
    /\ VersionIsCurrent(s, diag_version)
    /\ ~HasError(s)
    /\ ~s.dependency_rebuild_attempted
    /\ ImportsOutOfDate(diagnostics)

\* Versions the server can put on a publishDiagnostics for p: one of the
\* document versions it was sent for p, or none at all.
ServerVersions(p) == {NoVersion} \cup (0..srv_max[p])

\* What handle_publish_diagnostics does to the file manager: the locked
\* section, and the decision to rebuild.
on_publish_diagnostics(p, diagnostics, diag_version) ==
    /\ reader_pc = "idle"
    /\ Tracked(p)
    /\ diag_version \in ServerVersions(p)
    \* a rebuild adds one to the version: keep it within MaxVersion
    /\ ImportsOutOfDate(diagnostics) => states[p].version < MaxVersion
    /\ states' = [states EXCEPT
                    ![p] = PublishedState(states[p], diagnostics, diag_version)]
    /\ IF NeedsRebuild(states[p], diagnostics, diag_version)
       THEN reader_pc' = "rebuild" /\ reader_path' = p
       ELSE UNCHANGED <<reader_pc, reader_path>>
    /\ UNCHANGED <<opened_files, disk, srv_max, pc, stack, loc, result, sent,
                   updates, rebuilds, requested,
                   rerequested, client_vars, table_vars, retry, pool, other>>

\* The handler registered for textDocument/publishDiagnostics, run by the
\* reader thread on a notification of the server.
handle_publish_diagnostics(p, diagnostics, diag_version) ==
    /\ on_publish_diagnostics(p, diagnostics, diag_version)
    /\ UNCHANGED <<lean, close_condition>>

\* The rest of handle_publish_diagnostics when needs_rebuild: didClose, then
\* under the lock version + 1, reset_after_change and didOpen (build "once").
RebuiltState(s) == reset_after_change([s EXCEPT !.version = s.version + 1])

rebuild_stale_imports ==
    /\ reader_pc = "rebuild"
    /\ LET p == reader_path IN
       IF Tracked(p)
       THEN /\ states' = [states EXCEPT ![p] = RebuiltState(states[p])]
            /\ srv_max' = [srv_max EXCEPT ![p] = Max(@, states[p].version + 1)]
            /\ rebuilds' = [rebuilds EXCEPT ![p] = @ + 1]
       ELSE UNCHANGED <<states, srv_max, rebuilds>>
    /\ reader_pc' = "idle"
    /\ reader_path' = ""
    /\ UNCHANGED <<opened_files, disk, pc, stack, loc, result, sent, updates,
                   requested,
                   rerequested, client_vars, table_vars, retry, lean, pool, other,
                   close_condition>>

\* The processing list of a $/lean/fileProgress notification: empty, ending
\* in a range of kind 1 (processing), or ending in a range of kind 2 (fatal).
ProgressKinds == {"empty", "processing", "fatalError"}

ProgressState(s, kind) ==
    IF kind = "fatalError"
    THEN [s EXCEPT !.fatal_error = TRUE, !.processing = FALSE,
                   !.complete = TRUE, !.last_activity = "recent"]
    ELSE IF kind = "empty"
    THEN [s EXCEPT !.processing = FALSE]
    ELSE s

\* What handle_file_progress does to the file manager.
on_file_progress(p, kind) ==
    /\ reader_pc = "idle"
    /\ Tracked(p)
    /\ states' = [states EXCEPT ![p] = ProgressState(states[p], kind)]
    /\ UNCHANGED <<opened_files, disk, srv_max, pc, stack, loc, result, sent,
                   reader_pc, reader_path, updates, rebuilds, requested,
                   rerequested, client_vars, table_vars, retry, pool, other,
                   close_condition>>

\* The handler registered for $/lean/fileProgress, run by the reader
\* thread on a notification of the server.
handle_file_progress(p, kind) ==
    /\ on_file_progress(p, kind)
    /\ UNCHANGED lean

(***************************************************************************)
(* close_files                                                             *)
(***************************************************************************)
DidClose(ps) ==
    [i \in 1..Len(ps) |-> Notification("textDocument/didClose", ps[i], NoVersion)]

\* close_files up to the wait: the check for untracked paths, the close
\* flags of a blocking close, and the didClose notifications.
\* l is the caller's locals and stk the frames close_files returns to.
close_files_begin(l, ps, blocking, stk) ==
    IF \E i \in 1..Len(ps) : ~Tracked(ps[i])
    THEN /\ Raise("FileNotFoundError")
         /\ loc' = l
         /\ UNCHANGED <<states, sent>>
    ELSE /\ states' = [p \in Paths |->
                IF blocking /\ p \in Range(ps)
                THEN [states[p] EXCEPT !.close_pending = TRUE,
                                       !.close_ready = FALSE]
                ELSE states[p]]
         /\ sent' = sent \o DidClose(ps)
         /\ loc' = [l EXCEPT !.close_paths = ps, !.blocking = blocking,
                              !.timed_out = FALSE]
         /\ pc' = IF blocking THEN "cf_wait" ELSE "cf_remove"
         /\ stack' = stk
         /\ result' = result

\* Every path of ps is a key of self.opened_files.
AllTracked(ps) == \A i \in 1..Len(ps) : Tracked(ps[i])

\* all(ready) in the wait loop of a blocking close_files
AllCloseReady(ps) == \A i \in 1..Len(ps) : states[ps[i]].close_ready

\* Mutant of WaitEnds: the loop is left at once.
WaitEnds_AtOnce(ps, deadline_passed) == TRUE

\* Mutant of WaitEnds: the loop has no deadline.
WaitEnds_NoDeadline(ps, deadline_passed) == AllCloseReady(ps)

\* The two breaks of the wait loop: all(ready), or remaining <= 0.
WaitEnds(ps, deadline_passed) == AllCloseReady(ps) \/ deadline_passed

\* The wait loop of a blocking close_files ends: every path is close_ready,
\* or the deadline has passed, which is logged ("close_files timed out").
\* The close flags are reset in the same locked section.
close_files_wait(deadline_passed) ==
    /\ pc = "cf_wait"
    /\ AllTracked(loc.close_paths)
    /\ WaitEnds(loc.close_paths, deadline_passed)
    /\ states' = [p \in Paths |->
           IF p \in Range(loc.close_paths)
           THEN [states[p] EXCEPT !.close_pending = FALSE, !.close_ready = FALSE]
           ELSE states[p]]
    /\ loc' = [loc EXCEPT !.timed_out =
                  deadline_passed /\ ~AllCloseReady(loc.close_paths)]
    /\ pc' = "cf_remove"
    /\ UNCHANGED <<opened_files, disk, srv_max, stack, result, sent,
                   reader_pc, reader_path, updates, rebuilds, requested,
                   rerequested, client_vars, table_vars, retry, lean, pool, other,
                   close_condition>>

\* Index of the first element of ps that occurred before it, 0 if none:
\* the del statement that finds its key already deleted.
FirstRepeat(ps) ==
    LET R == {i \in 1..Len(ps) : \E j \in 1..(i - 1) : ps[j] = ps[i]}
    IN IF R = {} THEN 0 ELSE CHOOSE i \in R : \A j \in R : i <= j

\* Index of the first del statement that does not find its key: the key
\* was deleted by an earlier del of the loop, or is not in the dict any
\* more when the loop starts; 0 if every del finds its key.
FirstMissing(ps) ==
    LET M == {i \in 1..Len(ps) : ~Tracked(ps[i])} \cup
             (IF FirstRepeat(ps) = 0 THEN {} ELSE {FirstRepeat(ps)})
    IN IF M = {} THEN 0 ELSE CHOOSE i \in M : \A j \in M : i <= j

\* "Remove from state": del self.opened_files[path] for each path.
close_files_remove ==
    /\ pc = "cf_remove"
    /\ LET ps == loc.close_paths
           gone == IF FirstMissing(ps) = 0
                   THEN Range(ps)
                   ELSE Range(SubSeq(ps, 1, FirstMissing(ps) - 1))
       IN /\ opened_files' = Without(opened_files, gone)
          /\ states' = [p \in Paths |-> IF p \in gone THEN NoState ELSE states[p]]
          /\ updates' = [p \in Paths |-> IF p \in gone THEN 0 ELSE updates[p]]
          /\ rebuilds' = [p \in Paths |-> IF p \in gone THEN 0 ELSE rebuilds[p]]
          /\ IF FirstMissing(ps) = 0 THEN ReturnTo(stack) ELSE Raise("KeyError")
    /\ UNCHANGED <<disk, srv_max, loc, sent, reader_pc, reader_path, requested,
                   rerequested, client_vars, table_vars, retry, lean, pool, other,
                   close_condition>>

\* close_files(paths, blocking) called by the user.
close_files(ps, blocking) ==
    /\ pc = "idle"
    /\ close_files_begin([loc EXCEPT !.op = "close_files"], ps, blocking, <<>>)
    /\ UNCHANGED <<opened_files, disk, srv_max, reader_pc, reader_path,
                   updates, rebuilds, requested,
                   rerequested, client_vars, table_vars, retry, lean, pool, other,
                   close_condition>>

(***************************************************************************)
(* open_files                                                              *)
(***************************************************************************)
\* The request order after open_files(ps): each path of ps becomes the most
\* recently requested, in list order.
RECURSIVE Touch(_, _)
Touch(req, ps) ==
    IF ps = <<>> THEN req
    ELSE Touch(Append(Without(req, {Head(ps)}), Head(ps)), Tail(ps))

\* Where open_files goes on: the already-open files, then the new files,
\* then the eviction.
OpenPc(l) ==
    IF l.sync_rest # <<>> THEN "of_sync"
    ELSE IF l.new_rest # <<>> THEN "of_new"
    ELSE "of_evict"

\* open_files up to the end of its first locked section: the size check and
\* the split of paths into new_files and already_open.
open_files_begin(l, ps, force_reopen, stk) ==
    IF Len(ps) > max_opened_files
    THEN /\ Raise("RuntimeError")
         /\ loc' = l
         /\ UNCHANGED <<requested, rerequested>>
    ELSE LET l2 == [l EXCEPT
                      !.paths = ps,
                      !.new_files = SelectSeq(ps, LAMBDA p : ~Tracked(p)),
                      !.already_open = SelectSeq(ps, LAMBDA p : Tracked(p)),
                      !.new_rest = SelectSeq(ps, LAMBDA p : ~Tracked(p)),
                      !.sync_rest = SelectSeq(ps, LAMBDA p : Tracked(p)),
                      !.force_reopen = force_reopen]
         IN /\ loc' = l2
            /\ pc' = OpenPc(l2)
            /\ stack' = stk
            /\ result' = result
            /\ requested' = Touch(requested, ps)
            /\ rerequested' = (rerequested \/ l2.already_open # <<>>)

\* open_files(paths, force_reopen=...) called by the user.
open_files(ps, force_reopen) ==
    /\ pc = "idle"
    /\ open_files_begin([loc EXCEPT !.op = "open_files"], ps, force_reopen, <<>>)
    /\ UNCHANGED <<opened_files, states, disk, srv_max, sent, reader_pc,
                   reader_path, updates, rebuilds, client_vars, table_vars, retry, lean, pool, other,
                   close_condition>>

\* force_reopen: close_files(already_open), then new_files.extend(already_open)
open_files_force_close ==
    /\ pc = "of_sync"
    /\ loc.force_reopen
    /\ close_files_begin(
           [loc EXCEPT !.new_files = loc.new_files \o loc.already_open,
                       !.new_rest = loc.new_files \o loc.already_open,
                       !.sync_rest = <<>>],
           loc.already_open, TRUE, <<"of_new">> \o stack)
    /\ UNCHANGED <<opened_files, disk, srv_max, reader_pc, reader_path,
                   updates, rebuilds, requested,
                   rerequested, client_vars, table_vars, retry, lean, pool, other,
                   close_condition>>

\* One round of "Sync from disk using update": the file is read again and,
\* if it differs from the cached content, replaced through update_file.
open_files_sync ==
    /\ pc = "of_sync"
    /\ ~loc.force_reopen
    /\ Tracked(Head(loc.sync_rest))
    /\ LET p == Head(loc.sync_rest)
           l2 == [loc EXCEPT !.sync_rest = Tail(loc.sync_rest)]
       IN /\ IF states[p].content # disk[p]
             THEN /\ states[p].version < MaxVersion
                  /\ states' = [states EXCEPT
                                  ![p] = UpdatedState(states[p], <<disk[p]>>)]
                  /\ srv_max' = [srv_max EXCEPT
                                  ![p] = Max(@, states[p].version + 1)]
                  /\ sent' = Append(sent, Notification(
                         "textDocument/didChange", p, states[p].version + 1))
                  /\ updates' = [updates EXCEPT ![p] = @ + 1]
             ELSE UNCHANGED <<states, srv_max, sent, updates>>
          /\ loc' = l2
          /\ pc' = OpenPc(l2)
    /\ UNCHANGED <<opened_files, disk, stack, result, reader_pc, reader_path,
                   rebuilds, requested,
                   rerequested, client_vars, table_vars, retry, lean, pool, other,
                   close_condition>>

\* One round of _open_new_files: read the file, create its FileState, send
\* didOpen with version 0.  A file that is not there raises from open().
open_new_files ==
    /\ pc = "of_new"
    /\ LET p == Head(loc.new_rest)
           l2 == [loc EXCEPT !.new_rest = Tail(loc.new_rest)]
       IN IF p \notin Paths
          THEN /\ Raise("FileNotFoundError")
               /\ UNCHANGED <<opened_files, states, srv_max, sent, loc,
                              updates, rebuilds>>
          ELSE /\ opened_files' = DictSet(opened_files, p)
               /\ states' = [states EXCEPT ![p] = FileState(disk[p])]
               /\ srv_max' = [srv_max EXCEPT ![p] = Max(@, 0)]
               /\ sent' = Append(sent,
                      Notification("textDocument/didOpen", p, 0))
               /\ updates' = [updates EXCEPT ![p] = 0]
               /\ rebuilds' = [rebuilds EXCEPT ![p] = 0]
               /\ loc' = l2
               /\ pc' = OpenPc(l2)
               /\ UNCHANGED <<stack, result>>
    /\ UNCHANGED <<disk, reader_pc, reader_path, requested,
                   rerequested, client_vars, table_vars, retry, lean, pool, other,
                   close_condition>>

\* Mutant of RemoveCount: the cache is never found over its limit.
RemoveCount_Never(keys) == 0

\* remove_count = max(0, len(self.opened_files) - self.max_opened_files)
RemoveCount(keys) == Max(0, Len(keys) - max_opened_files)

\* Mutant of RemovablePaths: the newest keys not in the request are taken.
RemovablePaths_Newest(keys, ps, count) ==
    LET others == Without(keys, Range(ps))
    IN SubSeq(others, Len(others) - count + 1, Len(others))

\* removable_paths: the keys not in the request, oldest first, cut to count
RemovablePaths(keys, ps, count) == Prefix(Without(keys, Range(ps)), count)

\* "Remove files if over limit", and close_files(removable_paths) up to its
\* wait.
open_files_evict ==
    /\ pc = "of_evict"
    /\ LET count == RemoveCount(opened_files)
           removable == RemovablePaths(opened_files, loc.paths, count)
           l2 == [loc EXCEPT !.removable = removable]
       IN IF count > 0
          THEN close_files_begin(l2, removable, TRUE, stack)
          ELSE /\ ReturnTo(stack)
               /\ loc' = l2
               /\ UNCHANGED <<states, sent>>
    /\ UNCHANGED <<opened_files, disk, srv_max, reader_pc, reader_path,
                   updates, rebuilds, requested,
                   rerequested, client_vars, table_vars, retry, lean, pool, other,
                   close_condition>>

(***************************************************************************)
(* get_diagnostics and _wait_for_diagnostics                               *)
(***************************************************************************)
\* get_diagnostics(path) called by the user: "Open file if not already open"
get_diagnostics(p) ==
    /\ pc = "idle"
    /\ LET l2 == [loc EXCEPT !.op = "get_diagnostics", !.gd_path = p]
       IN IF Tracked(p)
          THEN /\ loc' = l2
               /\ pc' = "gd_check"
               /\ UNCHANGED <<stack, result, requested,
                   rerequested, client_vars, table_vars, retry, lean, pool, other,
                   close_condition>>
          ELSE open_files_begin(l2, <<p>>, FALSE, <<"gd_check">>)
    /\ UNCHANGED <<opened_files, states, disk, srv_max, sent, reader_pc,
                   reader_path, updates, rebuilds, client_vars, table_vars, retry, lean, pool, other,
                   close_condition>>

\* Mutant of NeedToWait: get_diagnostics waits whatever the state says.
NeedToWait_Always(s) == TRUE

\* need_to_wait = not is_complete
NeedToWait(s) == ~s.complete

\* "Check if we need to wait": is_complete = state.complete
get_diagnostics_check ==
    /\ pc = "gd_check"
    /\ Tracked(loc.gd_path)
    /\ loc' = [loc EXCEPT !.need_to_wait = NeedToWait(states[loc.gd_path])]
    /\ pc' = IF loc'.need_to_wait THEN "wd_pre" ELSE "gd_return"
    /\ UNCHANGED <<opened_files, states, disk, srv_max, stack, result,
                   sent, reader_pc, reader_path, updates, rebuilds, requested,
                   rerequested, client_vars, table_vars, retry, lean, pool, other,
                   close_condition>>

\* The condition under which the wait itself marks a file complete.
DiagnosticsArrived(s, target_version) ==
    /\ ~s.complete
    /\ ~s.processing
    /\ s.diagnostics_version >= target_version

\* "Check current state - do we need to wait?", and the waitForDiagnostics
\* request for the file if it does.
wait_for_diagnostics_begin ==
    /\ pc = "wd_pre"
    /\ Tracked(loc.gd_path)
    /\ LET p == loc.gd_path
           s == IF DiagnosticsArrived(states[p], states[p].version)
                THEN [states[p] EXCEPT !.complete = TRUE]
                ELSE states[p]
       IN /\ states' = [states EXCEPT ![p] = s]
          /\ IF s.complete
             THEN pc' = "gd_return" /\ loc' = loc
             ELSE /\ pc' = "wd_loop"
                  /\ loc' = [loc EXCEPT !.target_version = s.version,
                                        !.future = "pending"]
    /\ UNCHANGED <<opened_files, disk, srv_max, stack, result, sent,
                   reader_pc, reader_path, updates, rebuilds, requested,
                   rerequested, client_vars, table_vars, retry, lean, pool, other,
                   close_condition>>

\* The server answers the waitForDiagnostics request, with a result or with
\* an error.
FutureOutcomes == {"result", "exception"}

wait_for_diagnostics_response(outcome) ==
    /\ loc.future = "pending"
    /\ loc' = [loc EXCEPT !.future = outcome]
    /\ UNCHANGED <<opened_files, states, disk, srv_max, pc, stack, result,
                   sent, reader_pc, reader_path, updates, rebuilds, requested,
                   rerequested, client_vars, table_vars, retry, lean, pool, other,
                   close_condition>>

\* Mutant of FutureDoneState: a failed request is taken for an answered one.
FutureDoneState_Dropped(s, outcome) ==
    [s EXCEPT !.complete = TRUE, !.last_activity = "recent"]

\* "First, process futures that completed"
FutureDoneState(s, outcome) ==
    IF outcome = "exception"
    THEN [s EXCEPT !.error = "rpc_error", !.processing = FALSE,
                   !.complete = TRUE, !.last_activity = "recent"]
    ELSE [s EXCEPT !.complete = TRUE, !.last_activity = "recent"]

\* inactivity = current_time - state.last_activity is over
\* inactivity_timeout: last_activity is "recent" while it lies within the
\* timeout of the current time and "old" once it does not.
Inactive(s) == s.last_activity = "old"

\* Rounds of the wait loop that find the future unresolved and the file
\* incomplete and sleep, until more than inactivity_timeout has passed since
\* the file's last_activity.
wait_for_diagnostics_sleep ==
    /\ pc = "wd_loop"
    /\ Tracked(loc.gd_path)
    /\ LET p == loc.gd_path
           s == states[p]
       IN /\ loc.future \notin FutureOutcomes
          /\ ~DiagnosticsArrived(s, loc.target_version)
          /\ ~s.complete
          /\ ~Inactive(s)
          /\ states' = [states EXCEPT ![p].last_activity = "old"]
    /\ UNCHANGED <<opened_files, disk, srv_max, pc, stack, loc, result, sent,
                   reader_pc, reader_path, updates, rebuilds, requested,
                   rerequested, client_vars, table_vars, retry, lean, pool, other,
                   close_condition>>

\* The round of the wait loop that ends the wait: the future is done, the
\* diagnostics have arrived, the file is complete, or the file has been
\* inactive for longer than inactivity_timeout, which is logged
\* ("_wait_for_diagnostics timed out") and recorded in gave_up.
wait_for_diagnostics_poll ==
    /\ pc = "wd_loop"
    /\ Tracked(loc.gd_path)
    /\ LET p == loc.gd_path
           s == states[p]
       IN IF loc.future \in FutureOutcomes
          THEN /\ states' = [states EXCEPT ![p] = FutureDoneState(s, loc.future)]
               /\ loc' = loc
          ELSE IF DiagnosticsArrived(s, loc.target_version)
          THEN /\ states' = [states EXCEPT ![p] =
                               [s EXCEPT !.complete = TRUE,
                                         !.last_activity = "recent"]]
               /\ loc' = loc
          ELSE /\ s.complete \/ Inactive(s)
               /\ states' = states
               /\ loc' = [loc EXCEPT !.gave_up = ~s.complete]
    /\ pc' = "gd_return"
    /\ UNCHANGED <<opened_files, disk, srv_max, stack, result, sent,
                   reader_pc, reader_path, updates, rebuilds, requested,
                   rerequested, client_vars, table_vars, retry, lean, pool, other,
                   close_condition>>

\* Mutant of DiagnosticsResult: only an error is returned, the diagnostics
\* are withheld.
DiagnosticsResult_ErrorOnly(s) == IF HasError(s) THEN <<s.error>> ELSE <<>>

\* Mutant of DiagnosticsResult: the fatal-error message is returned even
\* when diagnostics are stored.
DiagnosticsResult_FatalFirst(s) ==
    IF HasError(s) THEN <<s.error>>
    ELSE IF s.fatal_error THEN <<"fatalError">>
    ELSE s.diagnostics

\* "Return diagnostics or error"
DiagnosticsResult(s) ==
    IF HasError(s) THEN <<s.error>>
    ELSE IF s.fatal_error /\ s.diagnostics = <<>> THEN <<"fatalError">>
    ELSE s.diagnostics

get_diagnostics_return ==
    /\ pc = "gd_return"
    /\ Tracked(loc.gd_path)
    /\ pc' = "done"
    /\ result' = [status |-> "ok",
                  value |-> DiagnosticsResult(states[loc.gd_path])]
    /\ UNCHANGED <<opened_files, states, disk, srv_max, stack, loc, sent,
                   reader_pc, reader_path, updates, rebuilds, requested,
                   rerequested, client_vars, table_vars, retry, lean, pool, other,
                   close_condition>>

(***************************************************************************)
(* The user and the environment                                            *)
(***************************************************************************)
\* The call has returned (or raised) and the user goes on.
Return ==
    /\ pc = "done"
    /\ pc' = "idle"
    /\ loc' = NoLoc
    /\ result' = NoResult
    /\ sent' = <<>>
    /\ UNCHANGED <<opened_files, states, disk, srv_max, stack, reader_pc,
                   reader_path, updates, rebuilds, requested,
                   rerequested, client_vars, table_vars, retry, lean, pool, other,
                   close_condition>>

\* Another program rewrites a file on disk.
DiskWrite(p, t) ==
    /\ p \in EditablePaths
    /\ disk[p] # t
    /\ disk' = [disk EXCEPT ![p] = t]
    /\ UNCHANGED <<opened_files, states, srv_max, pc, stack, loc, result,
                   sent, reader_pc, reader_path, updates, rebuilds, requested,
                   rerequested, client_vars, table_vars, retry, lean, pool, other,
                   close_condition>>

\* Lists of paths the user passes to open_files: every list of at most
\* max_opened_files paths, and one that is too long.
RECURSIVE SeqsUpTo(_, _)
SeqsUpTo(S, n) ==
    IF n = 0 THEN {<<>>}
    ELSE LET shorter == SeqsUpTo(S, n - 1)
         IN shorter \cup {Append(q, x) : q \in shorter, x \in S}

OpenRequests == SeqsUpTo(AllPaths, max_opened_files) \cup {<<"a", "b", "c">>}

\* Lists of paths the user passes to close_files.
CloseRequests == {<<p>> : p \in AllPaths} \cup {<<"a", "b">>}

\* The steps of the file manager when the user and the server address the
\* paths P, and the user passes the lists of Opens and Closes.
FileManagerNext(P, Opens, Closes) ==
    \/ \E ps \in Opens, force \in BOOLEAN : open_files(ps, force)
    \/ open_files_force_close
    \/ open_files_sync
    \/ open_new_files
    \/ open_files_evict
    \/ \E p \in P, ch \in ChangeLists : update_file(p, ch)
    \/ \E ps \in Closes, blocking \in BOOLEAN : close_files(ps, blocking)
    \/ \E deadline_passed \in BOOLEAN : close_files_wait(deadline_passed)
    \/ close_files_remove
    \/ \E p \in P : get_diagnostics(p)
    \/ get_diagnostics_check
    \/ wait_for_diagnostics_begin
    \/ \E outcome \in FutureOutcomes : wait_for_diagnostics_response(outcome)
    \/ wait_for_diagnostics_sleep
    \/ wait_for_diagnostics_poll
    \/ get_diagnostics_return
    \/ Return
    \/ \E p \in P \cap Paths, d \in Diags, v \in NoVersion..MaxVersion :
           handle_publish_diagnostics(p, d, v)
    \/ rebuild_stale_imports
    \/ \E p \in P \cap Paths, k \in ProgressKinds : handle_file_progress(p, k)
    \/ \E p \in P \cap Paths, t \in Texts : DiskWrite(p, t)

\* One file: every operation and every notification on path "a".
SyncNext == FileManagerNext({"a"}, {<<"a">>}, {<<"a">>})

SyncSpec == Init /\ [][SyncNext]_vars

(***************************************************************************)
(* A second caller thread                                                  *)
(***************************************************************************)
\* The caller thread subscripts self.opened_files with a path that is not
\* a key any more (another thread has removed it since the call checked
\* it): get_diagnostics at "state = self.opened_files[path]", the loop of
\* _wait_for_diagnostics, the wait loop of close_files, and the sync loop
\* of open_files.  The subscript raises KeyError.
opened_files_key_error ==
    /\ \/ pc \in {"gd_check", "wd_loop", "gd_return"} /\ ~Tracked(loc.gd_path)
       \/ pc = "cf_wait" /\ ~AllTracked(loc.close_paths)
       \/ pc = "of_sync" /\ ~loc.force_reopen /\ ~Tracked(Head(loc.sync_rest))
    /\ Raise("KeyError")
    /\ UNCHANGED <<opened_files, states, disk, srv_max, loc, sent, reader_pc,
                   reader_path, updates, rebuilds, requested, rerequested,
                   client_vars, table_vars, retry, lean, pool, other,
                   close_condition>>

\* _wait_for_diagnostics starts with a check of its own: a path that is
\* not open raises FileNotFoundError.
wait_for_diagnostics_missing ==
    /\ pc = "wd_pre"
    /\ ~Tracked(loc.gd_path)
    /\ Raise("FileNotFoundError")
    /\ UNCHANGED <<opened_files, states, disk, srv_max, loc, sent, reader_pc,
                   reader_path, updates, rebuilds, requested, rerequested,
                   client_vars, table_vars, retry, lean, pool, other,
                   close_condition>>

\* close_files([p], blocking) called on a second thread, up to its wait:
\* the check under the lock, the close flags, the didClose.
other_close_files(p, blocking) ==
    /\ other.pc = "idle"
    /\ IF ~Tracked(p)
       THEN /\ other' = [pc |-> "done", path |-> p,
                         result |-> "FileNotFoundError"]
            /\ UNCHANGED states
       ELSE /\ states' = [states EXCEPT ![p] =
                   IF blocking
                   THEN [@ EXCEPT !.close_pending = TRUE, !.close_ready = FALSE]
                   ELSE @]
            /\ other' = [pc |-> IF blocking THEN "cf_wait" ELSE "cf_remove",
                         path |-> p, result |-> "none"]
    /\ UNCHANGED <<opened_files, disk, srv_max, pc, stack, loc, result, sent,
                   reader_pc, reader_path, updates, rebuilds, requested,
                   rerequested, client_vars, table_vars, retry, lean, pool,
                   close_condition>>

\* The wait loop of the second thread's close_files ends, or finds its
\* path gone.
other_close_wait(deadline_passed) ==
    /\ other.pc = "cf_wait"
    /\ IF ~Tracked(other.path)
       THEN /\ other' = [other EXCEPT !.pc = "done", !.result = "KeyError"]
            /\ UNCHANGED states
       ELSE /\ WaitEnds(<<other.path>>, deadline_passed)
            /\ states' = [states EXCEPT ![other.path] =
                   [@ EXCEPT !.close_pending = FALSE, !.close_ready = FALSE]]
            /\ other' = [other EXCEPT !.pc = "cf_remove"]
    /\ UNCHANGED <<opened_files, disk, srv_max, pc, stack, loc, result, sent,
                   reader_pc, reader_path, updates, rebuilds, requested,
                   rerequested, client_vars, table_vars, retry, lean, pool,
                   close_condition>>

\* "del self.opened_files[path]" on the second thread.
other_close_remove ==
    /\ other.pc = "cf_remove"
    /\ LET p == other.path
       IN IF ~Tracked(p)
          THEN /\ other' = [other EXCEPT !.pc = "done", !.result = "KeyError"]
               /\ UNCHANGED <<opened_files, states, updates, rebuilds>>
          ELSE /\ opened_files' = Without(opened_files, {p})
               /\ states' = [states EXCEPT ![p] = NoState]
               /\ updates' = [updates EXCEPT ![p] = 0]
               /\ rebuilds' = [rebuilds EXCEPT ![p] = 0]
               /\ other' = [other EXCEPT !.pc = "done", !.result = "ok"]
    /\ UNCHANGED <<disk, srv_max, pc, stack, loc, result, sent, reader_pc,
                   reader_path, requested, rerequested, client_vars,
                   table_vars, retry, lean, pool,
                   close_condition>>

\* The second thread's call has ended and the thread goes on.
other_return ==
    /\ other.pc = "done"
    /\ other' = NoCall
    /\ UNCHANGED <<manager_vars, client_vars, table_vars, retry, lean, pool,
                   close_condition>>

\* Two threads on one file manager: one opens "a", closes it and asks for
\* its diagnostics, the other closes "a"; the server answers a didClose
\* with an empty publishDiagnostics.
ThreadsNext ==
    \/ open_files(<<"a">>, FALSE)
    \/ open_files_sync
    \/ open_new_files
    \/ open_files_evict
    \/ \E blocking \in BOOLEAN : close_files(<<"a">>, blocking)
    \/ \E deadline_passed \in BOOLEAN : close_files_wait(deadline_passed)
    \/ close_files_remove
    \/ get_diagnostics("a")
    \/ get_diagnostics_check
    \/ wait_for_diagnostics_begin
    \/ wait_for_diagnostics_missing
    \/ \E outcome \in FutureOutcomes : wait_for_diagnostics_response(outcome)
    \/ wait_for_diagnostics_sleep
    \/ wait_for_diagnostics_poll
    \/ get_diagnostics_return
    \/ opened_files_key_error
    \/ Return
    \/ \E blocking \in BOOLEAN : other_close_files("a", blocking)
    \/ \E deadline_passed \in BOOLEAN : other_close_wait(deadline_passed)
    \/ other_close_remove
    \/ other_return
    \/ \E v \in {NoVersion, 0} : handle_publish_diagnostics("a", <<>>, v)

ThreadsSpec == Init /\ [][ThreadsNext]_vars

(***************************************************************************)
(* _opened_files_lock and _close_condition                                 *)
(***************************************************************************)
\* Nobody owns _opened_files_lock: a "with" on the lock, or on the
\* condition built on it, gets in.
Free == close_condition.owner = "none"

\* The reader thread is between two notifications and the lock is free.
ReaderFree == Free /\ close_condition.reader = "idle"

\* notify_close at the end of the locked section of
\* handle_publish_diagnostics: set where close_ready is set.
NotifyClose(s, diagnostics, diag_version) ==
    /\ VersionIsCurrent(s, diag_version)
    /\ ~HasError(s)
    /\ s.close_pending
    /\ diagnostics = <<>>

\* Mutant of OwnerAfterSection: the handler notifies inside its locked
\* section.
OwnerAfterSection_Held(notify_close) ==
    IF notify_close THEN "reader" ELSE "none"

\* The owner of the lock when the handler leaves its "with" block: the
\* notify comes after the block ("outside the lock to avoid deadlock").
OwnerAfterSection(notify_close) == "none"

\* handle_publish_diagnostics takes the lock and runs its locked section.
publish_diagnostics_locked(p, diagnostics, diag_version) ==
    /\ ReaderFree
    /\ on_publish_diagnostics(p, diagnostics, diag_version)
    /\ close_condition' =
           [close_condition EXCEPT
              !.owner = "reader",
              !.reader = "locked",
              !.notify_close = NotifyClose(states[p], diagnostics, diag_version)]
    /\ UNCHANGED lean

\* handle_publish_diagnostics leaves its locked section.
publish_diagnostics_unlock ==
    /\ close_condition.reader = "locked"
    /\ close_condition' =
           [close_condition EXCEPT
              !.owner = OwnerAfterSection(close_condition.notify_close),
              !.reader = IF close_condition.notify_close
                         THEN "notify" ELSE "idle"]
    /\ UNCHANGED <<manager_vars, client_vars, table_vars, retry, lean, pool,
                   other>>

\* "with self._close_condition: self._close_condition.notify_all()": the
\* reader takes the lock again, wakes whoever waits, and releases it.
close_condition_notify_all ==
    /\ close_condition.reader = "notify"
    /\ Free
    /\ close_condition' =
           [close_condition EXCEPT
              !.notified = @ \/ close_condition.waiting,
              !.notify_close = FALSE,
              !.reader = "idle"]
    /\ UNCHANGED <<manager_vars, client_vars, table_vars, retry, lean, pool,
                   other>>

\* "with self._close_condition:" of a blocking close_files.
close_condition_enter ==
    /\ pc = "cf_wait"
    /\ Free
    /\ close_condition' = [close_condition EXCEPT !.owner = "caller"]
    /\ pc' = "cf_loop"
    /\ UNCHANGED <<opened_files, states, disk, srv_max, stack, loc, result,
                   sent, reader_pc, reader_path, updates, rebuilds, requested,
                   rerequested, client_vars, table_vars, retry, lean, pool,
                   other>>

\* One round of the wait loop, with the lock held: either a break (the
\* close flags are reset and the "with" block is left), or
\* self._close_condition.wait(timeout=remaining), which gives the lock up.
close_condition_check ==
    /\ pc \in {"cf_loop", "cf_woken"}
    /\ AllTracked(loc.close_paths)
    /\ IF WaitEnds(loc.close_paths, close_condition.deadline_passed)
       THEN /\ states' = [p \in Paths |->
                   IF p \in Range(loc.close_paths)
                   THEN [states[p] EXCEPT !.close_pending = FALSE,
                                          !.close_ready = FALSE]
                   ELSE states[p]]
            /\ loc' = [loc EXCEPT !.timed_out =
                          ~AllCloseReady(loc.close_paths)]
            /\ pc' = "cf_remove"
            /\ close_condition' =
                   [close_condition EXCEPT !.owner = "none",
                                           !.deadline_passed = FALSE]
       ELSE /\ pc' = "cf_asleep"
            /\ close_condition' =
                   [close_condition EXCEPT !.owner = "none",
                                           !.waiting = TRUE,
                                           !.notified = FALSE]
            /\ UNCHANGED <<states, loc>>
    /\ UNCHANGED <<opened_files, disk, srv_max, stack, result, sent,
                   reader_pc, reader_path, updates, rebuilds, requested,
                   rerequested, client_vars, table_vars, retry, lean, pool,
                   other>>

\* wait() returns: the thread was notified or its timeout ran out, and it
\* has the lock again, at the end of the loop body.
close_condition_wake ==
    /\ pc = "cf_asleep"
    /\ close_condition.notified \/ close_condition.deadline_passed
    /\ Free
    /\ close_condition' =
           [close_condition EXCEPT !.owner = "caller",
                                   !.waiting = FALSE,
                                   !.notified = FALSE]
    /\ pc' = "cf_woken"
    /\ UNCHANGED <<opened_files, states, disk, srv_max, stack, loc, result,
                   sent, reader_pc, reader_path, updates, rebuilds, requested,
                   rerequested, client_vars, table_vars, retry, lean, pool,
                   other>>

\* time.monotonic() gets past the deadline of the running close_files.
deadline_passes ==
    /\ pc \in {"cf_wait", "cf_loop", "cf_asleep", "cf_woken"}
    /\ ~close_condition.deadline_passed
    /\ close_condition' = [close_condition EXCEPT !.deadline_passed = TRUE]
    /\ UNCHANGED <<manager_vars, client_vars, table_vars, retry, lean, pool,
                   other>>

\* The caller thread and the reader thread on one file, every locked
\* section entered only when the lock is free.
LockNext ==
    \/ Free /\ open_files(<<"a">>, FALSE)
    \/ Free /\ open_files_sync
    \/ Free /\ open_new_files
    \/ Free /\ open_files_evict
    \/ Free /\ update_file("a", <<"t1">>)
    \/ Free /\ close_files(<<"a">>, TRUE)
    \/ close_condition_enter
    \/ close_condition_check
    \/ close_condition_wake
    \/ deadline_passes
    \/ Free /\ close_files_remove
    \/ Free /\ get_diagnostics("a")
    \/ Free /\ get_diagnostics_check
    \/ Free /\ wait_for_diagnostics_begin
    \/ \E outcome \in FutureOutcomes : wait_for_diagnostics_response(outcome)
    \/ Free /\ wait_for_diagnostics_sleep
    \/ Free /\ wait_for_diagnostics_poll
    \/ Free /\ get_diagnostics_return
    \/ Return
    \/ \E d \in {<<>>, <<"stale">>}, v \in {NoVersion, 0} :
           publish_diagnostics_locked("a", d, v)
    \/ publish_diagnostics_unlock
    \/ close_condition_notify_all
    \/ ReaderFree /\ rebuild_stale_imports
    \/ \E kind \in ProgressKinds : ReaderFree /\ handle_file_progress("a", kind)

\* The scheduling the threads get: a thread inside a locked section goes
\* on, and a thread blocked on the lock gets it if it is free again and
\* again.  Nothing is assumed about the clock or about the server.
LockFairness ==
    /\ WF_vars(publish_diagnostics_unlock)
    /\ WF_vars(close_condition_check)
    /\ SF_vars(close_condition_notify_all)
    /\ SF_vars(close_condition_enter)
    /\ SF_vars(close_condition_wake)

LockSpec == Init /\ [][LockNext]_vars /\ LockFairness

(***************************************************************************)
(* The language server on one file                                         *)
(***************************************************************************)
\* The diagnostics of a text: what the server reports once it has
\* elaborated the whole document.
LeanDiagnostics(text) == IF text = "t1" THEN <<"sorry">> ELSE <<>>

\* The server takes up the latest document the client has sent for p (the
\* didOpen, or the last didChange) and starts to elaborate it; whatever it
\* was doing for an older version is dropped.
lean_did_change(p) ==
    /\ Tracked(p)
    /\ lean[p].version < states[p].version
    /\ lean' = [lean EXCEPT ![p] = [version |-> states[p].version,
                                     text |-> states[p].content,
                                     phase |-> "elaborating"]]
    /\ UNCHANGED <<manager_vars, client_vars, table_vars, retry, pool, other,
                   close_condition>>

\* While it elaborates, the server publishes the diagnostics it has so far
\* ("may still get more diagnostics"): here none yet.
lean_publish_partial(p) ==
    /\ lean[p].phase = "elaborating"
    /\ on_publish_diagnostics(p, <<>>, lean[p].version)
    /\ UNCHANGED <<lean, close_condition>>

\* The server has elaborated the document and publishes its diagnostics.
lean_publish_final(p) ==
    /\ lean[p].phase = "elaborating"
    /\ on_publish_diagnostics(p, LeanDiagnostics(lean[p].text), lean[p].version)
    /\ lean' = [lean EXCEPT ![p].phase = "reported"]
    /\ UNCHANGED close_condition

\* The server then reports that nothing is left to process.
lean_progress_done(p) ==
    /\ lean[p].phase = "reported"
    /\ on_file_progress(p, "empty")
    /\ lean' = [lean EXCEPT ![p].phase = "done"]

\* The server answers textDocument/waitForDiagnostics once it has
\* published the diagnostics of a document at least as new as the version
\* in the request.
lean_answer ==
    /\ loc.future = "pending"
    /\ lean[loc.gd_path].version >= loc.target_version
    /\ lean[loc.gd_path].phase \in {"reported", "done"}
    /\ wait_for_diagnostics_response("result")

\* The user opens "a", edits it and asks for its diagnostics, in any order
\* and without closing it; other programs rewrite the file on disk; the
\* server elaborates what it is sent, behind the client by any delay.
RoundTripNext ==
    \/ open_files(<<"a">>, FALSE)
    \/ open_files_sync
    \/ open_new_files
    \/ open_files_evict
    \/ \E ch \in ChangeLists : update_file("a", ch)
    \/ get_diagnostics("a")
    \/ get_diagnostics_check
    \/ wait_for_diagnostics_begin
    \/ wait_for_diagnostics_sleep
    \/ wait_for_diagnostics_poll
    \/ get_diagnostics_return
    \/ Return
    \/ \E t \in Texts : DiskWrite("a", t)
    \/ lean_did_change("a")
    \/ lean_publish_partial("a")
    \/ lean_publish_final("a")
    \/ lean_progress_done("a")
    \/ lean_answer

RoundTripSpec == Init /\ [][RoundTripNext]_vars

\* The opened-file cache: the user opens and closes lists of paths, and the
\* server answers a didClose with an empty publishDiagnostics.
CacheNext ==
    \/ \E ps \in OpenRequests, force \in BOOLEAN : open_files(ps, force)
    \/ open_files_force_close
    \/ open_files_sync
    \/ open_new_files
    \/ open_files_evict
    \/ \E ps \in CloseRequests, blocking \in BOOLEAN : close_files(ps, blocking)
    \/ \E deadline_passed \in BOOLEAN : close_files_wait(deadline_passed)
    \/ close_files_remove
    \/ Return
    \/ \E p \in Paths, v \in {NoVersion, 0} :
           handle_publish_diagnostics(p, <<>>, v)

CacheSpec == Init /\ [][CacheNext]_vars

\* The caller thread runs: time passes, so the deadline of a wait is
\* reached, and the thread goes on after the wait.
CloseFairness ==
    /\ WF_vars(close_files_wait(TRUE))
    /\ WF_vars(close_files_remove)

CloseSpec == Init /\ [][CacheNext]_vars /\ CloseFairness

\* Lists of distinct existing paths, short enough for one open_files call.
OpenOnlyRequests ==
    {ps \in SeqsUpTo(Paths, max_opened_files) :
        \A i, j \in 1..Len(ps) : ps[i] = ps[j] => i = j}

\* The user only opens files, through calls that all return normally.
OpenOnlyNext ==
    \/ \E ps \in OpenOnlyRequests, force \in BOOLEAN : open_files(ps, force)
    \/ open_files_force_close
    \/ open_files_sync
    \/ open_new_files
    \/ open_files_evict
    \/ \E deadline_passed \in BOOLEAN : close_files_wait(deadline_passed)
    \/ close_files_remove
    \/ Return
    \/ \E p \in Paths, v \in {NoVersion, 0} :
           handle_publish_diagnostics(p, <<>>, v)

OpenOnlySpec == Init /\ [][OpenOnlyNext]_vars

(***************************************************************************)
(* BaseLeanLSPClient: requests, the pending table and the reader tasks     *)
(***************************************************************************)
\* Messages on the server's stdout: the answer to a request, a notification
\* with a method in IGNORED_METHODS, and a body cut short by the end of the
\* stream.
Response(id) == [kind |-> "response", id |-> id]
IgnoredNotification == [kind |-> "notification", id |-> 0]
ShortBody == [kind |-> "short", id |-> 0]

\* Mutant of IdTaken: the id drawn is used whether or not it is pending.
IdTaken_Never(request_id) == FALSE

\* "while request_id in self.pending": an id drawn by secrets.randbits is
\* drawn again as long as it is a key of the pending table.
IdTaken(request_id) == request_id \in pending

\* send_request_rpc up to "return await future": the id drawn is not a key
\* of self.pending, the future is stored, and the frame is written and
\* drained.  On a pipe lost with the server drain raises
\* ConnectionResetError and the stored future stays in the table.
send_request_rpc(request_id, is_notification) ==
    /\ ~is_notification =>
          /\ ~IdTaken(request_id)
          /\ callers[request_id] # "awaiting"
    /\ pending' = IF is_notification THEN pending
                  ELSE pending \cup {request_id}
    /\ futures' = IF is_notification THEN futures
                  ELSE [futures EXCEPT ![request_id] = "unresolved"]
    /\ IF stdin = "open"
       THEN /\ inbox' = IF is_notification THEN inbox
                        ELSE inbox \cup {request_id}
            /\ callers' = IF is_notification THEN callers
                          ELSE [callers EXCEPT ![request_id] = "awaiting"]
            /\ last_send' = "written"
       ELSE /\ inbox' = inbox
            /\ callers' = IF is_notification THEN callers
                          ELSE [callers EXCEPT ![request_id] = "raised"]
            /\ last_send' = "ConnectionResetError"
    /\ UNCHANGED <<process, stdout, stdout_eof, stdin, stdout_task,
                   stderr_task, manager_vars, table_vars, retry, lean, pool, other,
                   close_vars,
                   close_condition>>

\* "return await future" in send_request_rpc: the caller goes on once its
\* future has a result or is cancelled.
await_future(request_id) ==
    /\ callers[request_id] = "awaiting"
    /\ futures[request_id] \in {"result", "cancelled"}
    /\ callers' = [callers EXCEPT ![request_id] =
                      IF futures[request_id] = "result"
                      THEN "returned" ELSE "raised"]
    /\ UNCHANGED <<process, stdout, stdout_eof, stdin, inbox, pending,
                   futures, last_send, stdout_task, stderr_task, manager_vars, table_vars, retry, lean, pool, other,
                   close_vars,
                   close_condition>>

\* send_request_timeout: asyncio.wait_for gives up on a request whose
\* answer has not come, which cancels the coroutine suspended in "return
\* await future" and with it the future; the entry stays in self.pending
\* and the call returns None.
send_request_timeout(request_id) ==
    /\ callers[request_id] = "awaiting"
    /\ futures[request_id] = "unresolved"
    /\ futures' = [futures EXCEPT ![request_id] = "cancelled"]
    /\ callers' = [callers EXCEPT ![request_id] = "timed_out"]
    /\ UNCHANGED <<process, stdout, stdout_eof, stdin, inbox, pending,
                   last_send, stdout_task, stderr_task, manager_vars,
                   table_vars, retry, lean, pool, other, close_vars,
                   close_condition>>

\* Mutant of PendingAfter: an answer empties the table.
PendingAfter_Clear(table, message) ==
    IF message.kind = "response" THEN {} ELSE table

\* self.pending after _run_stdout has handled a message
PendingAfter(table, message) ==
    IF message.kind = "response" THEN table \ {message.id} ELSE table

\* The futures after _run_stdout has handled a message: the future popped
\* for the message's id gets the message as its result unless cancelled.
FuturesAfter(table, fs, message) ==
    IF message.kind = "response" /\ message.id \in table
       /\ fs[message.id] # "cancelled"
    THEN [fs EXCEPT ![message.id] = "result"]
    ELSE fs

\* One round of the loop of _run_stdout.  A cancelled task gets
\* CancelledError from its await and leaves the loop ("break").  _read_stdout returns the next
\* message ({} for a short body), which is dispatched; at the end of the
\* stream it awaits self.close() instead, which cancels every task of
\* self.tasks and awaits asyncio.gather(*self.tasks).  The task that runs
\* _run_stdout is one of them, so the gather it awaits cannot finish: the
\* task stays suspended there, and the rest of close() (closing stdin,
\* cancelling the pending futures) and the raise of EOFError are not reached.
run_stdout ==
    /\ \/ stdout_task = "reading" /\ (stdout # <<>> \/ stdout_eof)
       \/ stdout_task = "cancelled"
    /\ IF stdout_task = "cancelled"
       THEN /\ stdout_task' = "exited"
            /\ UNCHANGED <<stdout, pending, futures, stderr_task>>
       ELSE IF stdout # <<>>
       THEN /\ stdout' = Tail(stdout)
            /\ pending' = PendingAfter(pending, Head(stdout))
            /\ futures' = FuturesAfter(pending, futures, Head(stdout))
            /\ UNCHANGED <<stdout_task, stderr_task>>
       ELSE /\ stdout_task' = "closing"
            /\ stderr_task' = IF stderr_task = "reading" THEN "cancelled"
                              ELSE stderr_task
            /\ UNCHANGED <<stdout, pending, futures>>
    /\ UNCHANGED <<process, stdout_eof, stdin, inbox, callers, last_send,
                   manager_vars, table_vars, retry, lean, pool, other,
                   close_vars,
                   close_condition>>

\* The loop of _run_stderr ends: readline returns nothing once the server
\* is gone, or the task was cancelled.
run_stderr ==
    /\ \/ stderr_task = "reading" /\ process = "exited"
       \/ stderr_task = "cancelled"
    /\ stderr_task' = "exited"
    /\ UNCHANGED <<process, stdout, stdout_eof, stdin, inbox, pending,
                   futures, callers, last_send, stdout_task, manager_vars, table_vars, retry, lean, pool, other,
                   close_vars,
                   close_condition>>

\* The server answers a request it has read.
server_respond(request_id) ==
    /\ process = "running"
    /\ request_id \in inbox
    /\ Len(stdout) < MaxQueue
    /\ stdout' = Append(stdout, Response(request_id))
    /\ inbox' = inbox \ {request_id}
    /\ UNCHANGED <<process, stdout_eof, stdin, pending, futures, callers,
                   last_send, stdout_task, stderr_task, manager_vars, table_vars, retry, lean, pool, other,
                   close_vars,
                   close_condition>>

\* The server sends a notification the client ignores.
server_notify ==
    /\ process = "running"
    /\ Len(stdout) < MaxQueue
    /\ stdout' = Append(stdout, IgnoredNotification)
    /\ UNCHANGED <<process, stdout_eof, stdin, inbox, pending, futures,
                   callers, last_send, stdout_task, stderr_task, manager_vars, table_vars, retry, lean, pool, other,
                   close_vars,
                   close_condition>>

\* The server exits or is killed, in the middle of a message or not: its
\* pipes close.
server_exit(truncated) ==
    /\ process = "running"
    /\ process' = "exited"
    /\ stdout_eof' = TRUE
    /\ stdin' = "lost"
    /\ stdout' = IF truncated /\ Len(stdout) < MaxQueue
                 THEN Append(stdout, ShortBody) ELSE stdout
    /\ UNCHANGED <<inbox, pending, futures, callers, last_send, stdout_task,
                   stderr_task, manager_vars, table_vars, retry, lean, pool, other,
                   close_vars,
                   close_condition>>

\* close() up to "await asyncio.gather(*self.tasks)": every task of
\* self.tasks is cancelled.  Cancelling the task that is itself suspended
\* in close() on a gather of self.tasks goes from the task to the gather and
\* back to the task without end: the call raises RecursionError.
close_begin ==
    /\ close_pc \in {"idle", "returned", "RecursionError", "TypeError"}
    /\ pending_at_close' = pending
    /\ IF stdout_task = "closing"
       THEN /\ close_pc' = "RecursionError"
            /\ UNCHANGED <<stdout_task, stderr_task>>
       ELSE /\ close_pc' = "gather"
            /\ stdout_task' = IF stdout_task = "reading" THEN "cancelled"
                              ELSE stdout_task
            /\ stderr_task' = IF stderr_task = "reading" THEN "cancelled"
                              ELSE stderr_task
    /\ UNCHANGED <<process, stdout, stdout_eof, stdin, inbox, pending,
                   futures, callers, last_send, manager_vars, table_vars, retry, lean, pool, other,
                   close_condition>>

\* asyncio.gather(*self.tasks) is done when every task has ended.
TasksDone == stdout_task = "exited" /\ stderr_task = "exited"

\* Mutant of CancelledFutures: the pending futures are left as they are.
CancelledFutures_None(table, fs) == fs

\* "for future in self.pending.values(): future.cancel()"
CancelledFutures(table, fs) ==
    [id \in Ids |->
        IF id \in table /\ fs[id] = "unresolved" THEN "cancelled" ELSE fs[id]]

\* close() after the gather: self.stdin.close(), future.cancel() for every
\* future of self.pending, and the start of the wait for the process.
close_gathered ==
    /\ close_pc = "gather"
    /\ TasksDone
    /\ stdin' = IF stdin = "open" THEN "closed" ELSE stdin
    /\ futures' = CancelledFutures(pending, futures)
    /\ close_pc' = "wait"
    /\ UNCHANGED <<process, stdout, stdout_eof, inbox, pending, callers,
                   last_send, stdout_task, stderr_task, pending_at_close,
                   manager_vars, table_vars, retry, lean, pool, other,
                   close_condition>>

\* The end of close(): asyncio.wait_for(self.process.wait(), timeout)
\* returns once the process has exited; on TimeoutError the process is
\* killed by self.process.kill(), whose result None is then awaited, which
\* raises TypeError.
close_wait(timed_out) ==
    /\ close_pc = "wait"
    /\ IF process = "exited"
       THEN /\ close_pc' = "returned"
            /\ UNCHANGED <<process, stdout_eof, stdin>>
       ELSE /\ timed_out
            /\ process' = "exited"
            /\ stdout_eof' = TRUE
            /\ stdin' = IF stdin = "open" THEN "lost" ELSE stdin
            /\ close_pc' = "TypeError"
    /\ UNCHANGED <<stdout, inbox, pending, futures, callers, last_send,
                   stdout_task, stderr_task, pending_at_close, manager_vars, table_vars, retry, lean, pool, other,
                   close_condition>>

PumpNext ==
    \/ \E id \in Ids, is_notification \in BOOLEAN :
           send_request_rpc(id, is_notification)
    \/ \E id \in Ids : await_future(id)
    \/ \E id \in Ids : send_request_timeout(id)
    \/ run_stdout
    \/ run_stderr
    \/ \E id \in Ids : server_respond(id)
    \/ server_notify
    \/ \E truncated \in BOOLEAN : server_exit(truncated)
    \/ close_begin
    \/ close_gathered
    \/ \E timed_out \in BOOLEAN : close_wait(timed_out)

\* The event loop runs every task that is ready to run.
PumpFairness ==
    /\ WF_vars(run_stdout)
    /\ WF_vars(run_stderr)
    /\ \A id \in Ids : WF_vars(await_future(id))
    /\ WF_vars(close_gathered)

PumpSpec == Init /\ [][PumpNext]_vars /\ PumpFairness

(***************************************************************************)
(* BaseLeanLSPClient: the file tables                                      *)
(***************************************************************************)
\* "self.files_finished[path] = -1" for each new file, in list order.
RECURSIVE Register(_, _)
Register(keys, ps) ==
    IF ps = <<>> THEN keys ELSE Register(DictSet(keys, Head(ps)), Tail(ps))

\* _open_new_files(paths) of the base client: each file is read, its text
\* stored and its didOpen (version 1) sent; open() raises at the first file
\* that is not there.
RECURSIVE ClientOpenNewFiles(_, _, _)
ClientOpenNewFiles(ps, content, out) ==
    IF ps = <<>>
    THEN [content |-> content, sent |-> out, raised |-> FALSE]
    ELSE IF Head(ps) \notin Paths
    THEN [content |-> content, sent |-> out, raised |-> TRUE]
    ELSE ClientOpenNewFiles(
             Tail(ps), content \cup {Head(ps)},
             Append(out, Notification("textDocument/didOpen", Head(ps), 1)))

\* The four tables of the base client, by their keys.
Tables ==
    [finished |-> files_finished, diagnostics |-> files_diagnostics,
     content |-> files_content, last_update |-> files_last_update]

\* The tables after "del table[p]" for the tables before the first one
\* that has no key p, in the order of the loop body: files_finished,
\* files_diagnostics, files_content, files_last_update.
DeletedFrom(t, p) ==
    LET in1 == p \in Range(t.finished)
        in2 == in1 /\ p \in t.diagnostics
        in3 == in2 /\ p \in t.content
        in4 == in3 /\ p \in t.last_update
    IN [finished |-> IF in1 THEN Without(t.finished, {p}) ELSE t.finished,
        diagnostics |-> IF in2 THEN t.diagnostics \ {p} ELSE t.diagnostics,
        content |-> IF in3 THEN t.content \ {p} ELSE t.content,
        last_update |-> IF in4 THEN t.last_update \ {p} ELSE t.last_update]

\* Every one of the four tables has the key p.
InAllTables(t, p) ==
    /\ p \in Range(t.finished)
    /\ p \in t.diagnostics
    /\ p \in t.content
    /\ p \in t.last_update

\* The deleting loop of the base client's close_files: del on files_finished,
\* files_diagnostics, files_content and files_last_update, path by path; a
\* del that does not find its key raises KeyError.
RECURSIVE ClientDelete(_, _)
ClientDelete(ps, t) ==
    IF ps = <<>>
    THEN [tables |-> t, raised |-> FALSE]
    ELSE IF ~InAllTables(t, Head(ps))
    THEN [tables |-> DeletedFrom(t, Head(ps)), raised |-> TRUE]
    ELSE ClientDelete(Tail(ps), DeletedFrom(t, Head(ps)))

\* close_files(paths) of the base client: "Only close if file is open", a
\* didClose for each path that is left, then the deleting loop.
ClientClose(ps, t) ==
    LET open == SelectSeq(ps, LAMBDA p : p \in Range(t.finished))
        del == ClientDelete(open, t)
    IN [tables |-> del.tables, sent |-> DidClose(open), raised |-> del.raised]

\* The four tables become t.
SetTables(t) ==
    /\ files_finished' = t.finished
    /\ files_diagnostics' = t.diagnostics
    /\ files_content' = t.content
    /\ files_last_update' = t.last_update

\* BaseLeanLSPClient.close_files(paths) called by the user.
client_close_files(ps) ==
    /\ LET c == ClientClose(ps, Tables)
       IN /\ SetTables(c.tables)
          /\ client_sent' = c.sent
          /\ client_result' = IF c.raised THEN "KeyError" ELSE "ok"
    /\ UNCHANGED <<manager_vars, client_vars, retry, lean, pool, other,
                   close_condition>>

\* BaseLeanLSPClient.open_files(paths) called by the user.
client_open_files(ps) ==
    /\ IF Len(ps) > max_opened_files
       THEN /\ client_result' = "RuntimeError"
            /\ client_sent' = <<>>
            /\ UNCHANGED <<files_finished, files_content, files_diagnostics,
                           files_last_update>>
       ELSE LET new_files == SelectSeq(ps, LAMBDA p : p \notin Range(files_finished))
                registered == Register(files_finished, new_files)
                o == ClientOpenNewFiles(new_files, files_content, <<>>)
                opened == [finished |-> registered,
                           diagnostics |-> files_diagnostics \cup Range(new_files),
                           content |-> o.content,
                           last_update |-> files_last_update \cup Range(new_files)]
                count == RemoveCount(registered)
                removable == RemovablePaths(registered, ps, count)
                c == ClientClose(removable, opened)
            IN IF o.raised
               THEN /\ SetTables(opened)
                    /\ client_sent' = o.sent
                    /\ client_result' = "FileNotFoundError"
               ELSE IF count > 0
               THEN /\ SetTables(c.tables)
                    /\ client_sent' = o.sent \o c.sent
                    /\ client_result' = IF c.raised THEN "KeyError" ELSE "ok"
               ELSE /\ SetTables(opened)
                    /\ client_sent' = o.sent
                    /\ client_result' = "ok"
    /\ UNCHANGED <<manager_vars, client_vars, retry, lean, pool, other,
                   close_condition>>

\* The user opens and closes lists of paths on the base client.
ClientFilesNext ==
    \/ \E ps \in OpenRequests : client_open_files(ps)
    \/ \E ps \in CloseRequests : client_close_files(ps)

ClientFilesSpec == Init /\ [][ClientFilesNext]_vars

\* Paths the server may still send a notification for: the documents it
\* has open, and those the last file call opened or closed.
NotifiablePaths ==
    files_content \cup {client_sent[i].path : i \in 1..Len(client_sent)}

\* _run_stdout on a textDocument/publishDiagnostics notification for p.
client_publish_diagnostics(p) ==
    /\ p \in NotifiablePaths
    /\ files_diagnostics' = files_diagnostics \cup {p}
    /\ files_last_update' = files_last_update \cup {p}
    /\ UNCHANGED <<files_finished, files_content, client_sent, client_result,
                   manager_vars, client_vars, retry, lean, pool, other,
                   close_condition>>

\* _run_stdout on a $/lean/fileProgress notification for p: every branch
\* assigns files_finished[path], the fatalError branch files_diagnostics
\* too.
client_file_progress(p, kind) ==
    /\ p \in NotifiablePaths
    /\ files_last_update' = files_last_update \cup {p}
    /\ files_finished' = DictSet(files_finished, p)
    /\ files_diagnostics' = IF kind = "fatalError"
                            THEN files_diagnostics \cup {p}
                            ELSE files_diagnostics
    /\ UNCHANGED <<files_content, client_sent, client_result,
                   manager_vars, client_vars, retry, lean, pool, other,
                   close_condition>>

\* The user opens and closes lists of paths on the base client, and the
\* server's notifications come in.
ClientTablesNext ==
    \/ \E ps \in OpenRequests : client_open_files(ps)
    \/ \E ps \in CloseRequests : client_close_files(ps)
    \/ \E p \in AllPaths : client_publish_diagnostics(p)
    \/ \E p \in AllPaths, kind \in ProgressKinds : client_file_progress(p, kind)

ClientTablesSpec == Init /\ [][ClientTablesNext]_vars

(***************************************************************************)
(* send_request_retry                                                      *)
(***************************************************************************)
\* The two implementations: LSPFileManager._send_request_retry and
\* BaseLeanLSPClient.send_request_retry.
RetryImpls == {"file_manager", "base_client"}

\* Results the server gives to the repeated request.
Results == {"r1", "r2"}

\* The loop's exit test after retry_count += 1:
\* "if retry_count > max_retries" in the file manager,
\* "if retry_count >= retries" in the base client.
RetriesExhausted(impl, retry_count, max_retries) ==
    IF impl = "file_manager"
    THEN retry_count > max_retries
    ELSE retry_count >= max_retries

\* send_request_retry(path, method, params, max_retries) is called.
retry_call(impl, max_retries) ==
    /\ retry.pc = "idle"
    /\ retry' = [NoRetry EXCEPT !.pc = "loop", !.impl = impl,
                                !.max_retries = max_retries]
    /\ UNCHANGED <<manager_vars, client_vars, table_vars, lean, pool, other,
                   close_condition>>

\* Mutant of retry_round: a result that differs does not set retry_count
\* back to 0.
retry_round_NoReset(results) ==
    /\ retry.pc = "loop"
    /\ Len(retry.history) < MaxRequests
    /\ retry' =
          IF results = retry.prev_results
          THEN [retry EXCEPT
                  !.results = results,
                  !.history = Append(@, results),
                  !.retry_count = @ + 1,
                  !.pc = IF RetriesExhausted(retry.impl, retry.retry_count + 1,
                                             retry.max_retries)
                         THEN "returned" ELSE "loop"]
          ELSE [retry EXCEPT
                  !.results = results,
                  !.history = Append(@, results),
                  !.prev_results = results]
    /\ UNCHANGED <<manager_vars, client_vars, table_vars, lean, pool, other,
                   close_condition>>

\* One round of the loop: the request is sent, the server answers with
\* results, and the answer is compared with prev_results.
retry_round(results) ==
    /\ retry.pc = "loop"
    /\ Len(retry.history) < MaxRequests
    /\ retry' =
          IF results = retry.prev_results
          THEN [retry EXCEPT
                  !.results = results,
                  !.history = Append(@, results),
                  !.retry_count = @ + 1,
                  !.pc = IF RetriesExhausted(retry.impl, retry.retry_count + 1,
                                             retry.max_retries)
                         THEN "returned" ELSE "loop"]
          ELSE [retry EXCEPT
                  !.results = results,
                  !.history = Append(@, results),
                  !.retry_count = 0,
                  !.prev_results = results]
    /\ UNCHANGED <<manager_vars, client_vars, table_vars, lean, pool, other,
                   close_condition>>

\* The caller goes on after the call, or gives up following it.
retry_done ==
    /\ retry.pc = "returned" \/ Len(retry.history) = MaxRequests
    /\ retry' = NoRetry
    /\ UNCHANGED <<manager_vars, client_vars, table_vars, lean, pool, other,
                   close_condition>>

RetryNext ==
    \/ \E impl \in RetryImpls, max_retries \in 1..MaxRetries :
           retry_call(impl, max_retries)
    \/ \E results \in Results : retry_round(results)
    \/ retry_done

RetrySpec == Init /\ [][RetryNext]_vars

(***************************************************************************)
(* Claims about the per-file state machine (SyncSpec)                      *)
(***************************************************************************)
\* p is a key of opened_files before and after the step.
StaysOpen(p) == Tracked(p) /\ p \in Range(opened_files')

\* The stored diagnostics or diagnostics_version of p differ after the step.
DiagnosticsReplaced(p) ==
    \/ states'[p].diagnostics # states[p].diagnostics
    \/ states'[p].diagnostics_version # states[p].diagnostics_version

\* C1: a textDocument/publishDiagnostics notification for a tracked path
\* replaces the stored diagnostics and diagnostics_version (by those it
\* carries) only if its version is >= the stored diagnostics_version and
\* error is unset; in every other case both are left as they were.
C1_ReplacedOnlyIfCurrent ==
    [][\A p \in Paths :
          DiagnosticsReplaced(p) =>
              \A d \in Diags, v \in NoVersion..MaxVersion :
                  handle_publish_diagnostics(p, d, v) =>
                      /\ v >= states[p].diagnostics_version
                      /\ states[p].error = "None"
                      /\ states'[p].diagnostics = d
                      /\ states'[p].diagnostics_version = v]_vars

\* C1 witness: a notification replaced the diagnostics of an edited file.
C1_Witness ==
    /\ Tracked("a")
    /\ states["a"].version = 1
    /\ states["a"].diagnostics = <<"sorry">>
    /\ states["a"].diagnostics_version = 1

\* C2: once update_file has advanced a tracked path to version n, a
\* publishDiagnostics notification with a version lower than n does not
\* replace the path's stored diagnostics.
C2_StalePushIgnored ==
    [][\A p \in Paths, d \in Diags, v \in NoVersion..MaxVersion :
          (/\ handle_publish_diagnostics(p, d, v)
           /\ updates[p] > 0
           /\ v < states[p].version)
          => states'[p].diagnostics = states[p].diagnostics]_vars

\* C3: a FileState is complete only when processing has ended with
\* diagnostics of the current version, or an error is stored, or a fatal
\* error was reported and no diagnostics arrived.
C3_CompleteOnlyWhen ==
    \A p \in Range(opened_files) :
        states[p].complete =>
            \/ ~states[p].processing
               /\ states[p].diagnostics_version >= states[p].version
            \/ states[p].error # "None"
            \/ states[p].fatal_error /\ states[p].diagnostics = <<>>

\* C4: while a path stays open its diagnostics_version never decreases.
C4_DiagnosticsVersionMonotone ==
    [][\A p \in Paths :
          StaysOpen(p) =>
              states'[p].diagnostics_version >= states[p].diagnostics_version]_vars

\* C5 as stated: the version of an open path is the number of update_file
\* calls since it was opened (its version after open is 0).
C5_VersionCountsUpdates ==
    \A p \in Range(opened_files) : states[p].version = updates[p]

\* C5 as amended: the version of an open path is the number of update_file
\* calls since it was opened plus the number of stale-import rebuilds the
\* diagnostics handler applied to it since then, and no step lowers the
\* version of a path that stays open.
C5_VersionCountsUpdatesAndRebuilds ==
    /\ [](\A p \in Range(opened_files) :
             states[p].version = updates[p] + rebuilds[p])
    /\ [][\A p \in Paths :
             StaysOpen(p) => states'[p].version >= states[p].version]_vars

\* C5 witness: an update_file call and a rebuild on the same open path.
C5_Witness ==
    /\ Tracked("a")
    /\ updates["a"] = 1
    /\ rebuilds["a"] = 1
    /\ states["a"].version = 2

(***************************************************************************)
(* Claims about the opened-file cache (CacheSpec, OpenOnlySpec)            *)
(***************************************************************************)
\* A top-level open_files call has just returned normally.
OpenFilesReturned ==
    pc = "done" /\ loc.op = "open_files" /\ result.status = "ok"

\* C6: after any open_files call returns, the number of tracked paths is at
\* most max_opened_files, whatever open and close calls preceded it
\* (calls that raised midway and left the cache over its limit included).
C6_CacheWithinBound ==
    OpenFilesReturned => Len(opened_files) <= max_opened_files

\* An open_files call that found the cache over its limit, left so by an
\* earlier call that raised, has evicted and returned.
C6_Witness ==
    /\ OpenFilesReturned
    /\ loc.new_files = <<>>
    /\ loc.removable # <<>>
    /\ Len(opened_files) = max_opened_files

\* The last max_opened_files paths of the request order.
MostRecentlyRequested ==
    Range(SubSeq(requested, Len(requested) - max_opened_files + 1,
                 Len(requested)))

\* C7 as stated: once more than max_opened_files distinct paths have been
\* requested through successive open_files calls, exactly max_opened_files
\* paths remain tracked and they are the most recently requested ones.
C7_TrackedAreMostRecentlyRequested ==
    (OpenFilesReturned /\ Len(requested) > max_opened_files) =>
        /\ Len(opened_files) = max_opened_files
        /\ Range(opened_files) = MostRecentlyRequested

\* C7 amended: once more than max_opened_files distinct paths have been
\* requested through successive open_files calls, exactly max_opened_files
\* paths remain tracked; they are the most recently requested ones provided
\* no call named a path that was tracked when the call was made (eviction
\* goes by insertion order, which such a request does not renew).
C7_TrackedAreMostRecentlyInserted ==
    (OpenFilesReturned /\ Len(requested) > max_opened_files) =>
        /\ Len(opened_files) = max_opened_files
        /\ ~rerequested => Range(opened_files) = MostRecentlyRequested

\* a, b, c and a again were opened one by one: c and a remain.
C7_Witness ==
    /\ OpenFilesReturned
    /\ ~rerequested
    /\ requested = <<"b", "c", "a">>
    /\ opened_files = <<"c", "a">>

\* Position of a tracked path in the dict order of opened_files.
Position(p) == CHOOSE i \in 1..Len(opened_files) : opened_files[i] = p

\* C8: when open_files has to evict, it closes only paths that are not in
\* the current request, the earliest-inserted tracked paths first, and
\* just enough of them to bring the cache back within max_opened_files.
C8_EvictsOldestOutsideRequest ==
    [][/\ (pc = "of_evict" /\ pc' # pc
            /\ Len(opened_files) > max_opened_files) =>
              LET closed == Range(loc'.removable)
                  others == Range(opened_files) \ Range(loc.paths)
              IN /\ closed \subseteq others
                 /\ Cardinality(closed) = Len(opened_files) - max_opened_files
                 /\ Len(loc'.removable) = Cardinality(closed)
                 /\ \A p \in closed, q \in others \ closed :
                        Position(p) < Position(q)
                 /\ sent' = sent \o DidClose(loc'.removable)
                 /\ pc' = "cf_wait"
       /\ (pc = "cf_remove" /\ pc' # pc /\ loc.removable # <<>>) =>
              /\ opened_files' = Without(opened_files, Range(loc.removable))
              /\ Len(opened_files') = max_opened_files]_vars

\* An eviction that had to choose: a tracked path outside the request stays.
C8_Witness ==
    /\ OpenFilesReturned
    /\ loc.removable # <<>>
    /\ \E q \in Range(opened_files) : q \notin Range(loc.paths)

\* The call is open_files([p]) for a path it found tracked, with the same
\* content on disk as in the cache.
CacheHit(p) ==
    /\ loc.op = "open_files"
    /\ loc.paths = <<p>>
    /\ loc.already_open = <<p>>
    /\ ~loc.force_reopen
    /\ states[p].content = disk[p]

\* C9: if a path is already tracked and its on-disk content equals the
\* cached content, open_files([p]) sends no didOpen nor any other
\* notification, and no step of the call changes the version, diagnostics
\* or complete flag of the path's FileState.
C9_CacheHitIsSilent ==
    /\ [](\A p \in Paths :
            (CacheHit(p) /\ pc = "done" /\ result.status = "ok") => sent = <<>>)
    /\ [][\A p \in Paths :
            (CacheHit(p) /\ pc' # pc /\ pc # "done") =>
                /\ states'[p].version = states[p].version
                /\ states'[p].diagnostics = states[p].diagnostics
                /\ states'[p].complete = states[p].complete]_vars

(***************************************************************************)
(* Claims about the message pump (PumpSpec)                                *)
(***************************************************************************)
\* A coroutine is suspended on the future of a request it sent.
Outstanding == \E id \in Ids : callers[id] = "awaiting"

\* The reader loop has ended, no future in the pending table is unresolved
\* and no caller is suspended on one.
PendingSettled ==
    /\ stdout_task = "exited"
    /\ \A id \in pending : futures[id] # "unresolved"
    /\ ~Outstanding

\* C10: when the server's output stream reaches EOF while requests are
\* outstanding, the reader loop terminates and every future still in the
\* pending table is eventually resolved with an error or cancelled, so that
\* no caller awaiting a request stays blocked forever.
C10_EofSettlesPending == (stdout_eof /\ Outstanding) ~> PendingSettled

\* C11: after close() returns, every future that was in the pending table
\* when close was called is cancelled, and every caller suspended on a
\* request goes on (with the cancellation).
C11_CloseCancelsPending ==
    /\ [](close_pc = "returned" =>
            \A id \in pending_at_close : futures[id] = "cancelled")
    /\ (close_pc = "returned") ~> ~Outstanding

\* close() has returned after it cancelled the future of a request that
\* had been written to the server, and the caller has seen the cancellation.
C11_Witness ==
    /\ close_pc = "returned"
    /\ last_send = "written"
    /\ pending_at_close = {1}
    /\ futures[1] = "cancelled"
    /\ callers[1] = "raised"

\* The engine is closed: the reader tasks have ended, the pipe to the server
\* is closed or lost, and the server process has exited.
Closed == TasksDone /\ stdin # "open" /\ process = "exited"

\* C12: a close() call made after an earlier close() has returned, or after
\* the server process has exited, does not raise, and a close() of a closed
\* engine leaves it in the same closed state.
C12_CloseIsIdempotent ==
    [][/\ (close_begin /\ (close_pc = "returned" \/ process = "exited")) =>
            close_pc' = "gather"
       /\ (process = "exited" /\ \E t \in BOOLEAN : close_wait(t)) =>
            close_pc' = "returned"
       /\ (Closed /\ (\/ close_begin
                       \/ close_gathered
                       \/ \E t \in BOOLEAN : close_wait(t))) =>
            UNCHANGED <<process, stdin, stdout_task, stderr_task>>]_vars

\* C13: if the process has not exited when the timeout of close() elapses,
\* the process is force-killed and close() then returns normally with the
\* process terminated.
C13_CloseKillsAndReturns ==
    [][(process = "running" /\ close_wait(TRUE)) =>
           process' = "exited" /\ close_pc' = "returned"]_vars

\* C14: a blocking close_files of tracked paths, each listed once, always
\* ends, whether or not the server publishes anything: the wait is left when
\* the deadline has passed, and the call returns normally with none of the
\* paths tracked.
ClosePathsGone == \A i \in 1..Len(loc.close_paths) : ~Tracked(loc.close_paths[i])

C15_EmptyPushSetsCloseReady ==
    \A p \in Paths :
        (Tracked(p) /\ states[p].close_pending)
            => \A v \in ServerVersions(p) :
                   PublishedState(states[p], <<>>, v).close_ready

\* C16: while a blocking close_files waits, every path it was given is still
\* tracked, and the wait is left only when every path is close_ready or the
\* deadline has passed; when close_files, blocking or not, returns, none of
\* the paths it was given is tracked.
C16_RemovedOnlyAfterWait ==
    /\ [](pc = "cf_wait" =>
            \A i \in 1..Len(loc.close_paths) : Tracked(loc.close_paths[i]))
    /\ [](pc = "done" /\ loc.op = "close_files" /\ result.status = "ok"
            => ClosePathsGone)
    /\ [][/\ (pc = "cf_wait" /\ pc' # "cf_wait")
               => (AllCloseReady(loc.close_paths) \/ loc'.timed_out)
          /\ (pc = "cf_remove" /\ pc' # "cf_remove" /\ result'.status # "KeyError")
               => \A i \in 1..Len(loc.close_paths) :
                      loc.close_paths[i] \notin Range(opened_files')]_vars

\* A blocking close_files of two paths has returned to the user after both
\* paths were found close_ready.
C16_Witness ==
    /\ pc = "done"
    /\ loc.op = "close_files"
    /\ loc.blocking
    /\ ~loc.timed_out
    /\ loc.close_paths = <<"a", "b">>
    /\ result.status = "ok"
    /\ ~Tracked("a")
    /\ ~Tracked("b")

\* C17: update_file on a path that is not tracked raises FileNotFoundError,
\* sends no didChange and changes no FileState.
C17_UpdateOfUntrackedRaises ==
    [][\A p \in Paths, changes \in ChangeLists :
          (~Tracked(p) /\ update_file(p, changes))
          => /\ result'.status = "FileNotFoundError"
             /\ sent' = sent
             /\ states' = states
             /\ opened_files' = opened_files]_vars

\* update_file has raised FileNotFoundError for "a", which was open before
\* and has been closed: of the calls that raise it, update_file is the one
\* that leaves the caller's locals as they were.
C17_Witness ==
    /\ pc = "done"
    /\ result.status = "FileNotFoundError"
    /\ loc = NoLoc
    /\ ~Tracked("a")
    /\ srv_max["a"] = 0

\* C18: a close_files call whose list names an untracked path fails with the
\* not-open error and does nothing else: it sends no didClose and removes no
\* path.
C18_CloseOfUntrackedIsAllOrNothing ==
    [][\A ps \in CloseRequests :
          (/\ \E i \in 1..Len(ps) : ps[i] \notin Range(files_finished)
           /\ client_close_files(ps))
          => /\ client_result' = "FileNotFoundError"
             /\ client_sent' = <<>>
             /\ files_finished' = files_finished]_vars

\* C19: an open_files call whose list names a file that does not exist has
\* ended with FileNotFoundError, without having sent anything, and the
\* paths of its list are tracked exactly if they were when it was called.
C19_MissingFileOpensNothing ==
    (pc = "done" /\ loc.op = "open_files" /\ NoFile \in Range(loc.paths))
        => /\ result.status = "FileNotFoundError"
           /\ sent = <<>>
           /\ \A p \in Range(loc.paths) :
                  Tracked(p) <=> p \in Range(loc.already_open)

\* C20: a get_diagnostics call that finds its path tracked and the path's
\* FileState complete does not wait: it sends no request and no
\* notification, its steps leave every FileState as it was, and it returns
\* what the FileState holds.
CallerSilent == sent' = sent /\ states' = states /\ opened_files' = opened_files

C20_CompleteIsReturnedAsStored ==
    /\ [](/\ pc \in {"gd_return", "done"}
          /\ loc.op = "get_diagnostics"
          /\ result.status \in {"none", "ok"}
          /\ ~loc.need_to_wait
          => /\ loc.future = "none"
             /\ loc.paths = <<>> => sent = <<>>)
    /\ [][/\ (\E p \in Paths : Tracked(p) /\ get_diagnostics(p))
               => (CallerSilent /\ pc' = "gd_check")
          /\ (get_diagnostics_check /\ states[loc.gd_path].complete)
               => (CallerSilent /\ pc' = "gd_return" /\ loc'.future = "none")
          /\ (get_diagnostics_return /\ ~loc.need_to_wait)
               => /\ CallerSilent
                  /\ result'.status = "ok"
                  /\ result'.value = DiagnosticsResult(states[loc.gd_path])]_vars

\* get_diagnostics has returned the stored diagnostics of "a", which it found
\* tracked and complete: it opened nothing, did not wait and sent nothing.
C20_Witness ==
    /\ pc = "done"
    /\ loc.op = "get_diagnostics"
    /\ loc.paths = <<>>
    /\ ~loc.need_to_wait
    /\ loc.future = "none"
    /\ sent = <<>>
    /\ result = [status |-> "ok", value |-> <<"sorry">>]
    /\ states["a"].diagnostics = <<"sorry">>

C23_HandlerChangesAdvanceActivity ==
    [][\A p \in Paths :
          (/\ \/ \E d \in Diags, v \in NoVersion..MaxVersion :
                     handle_publish_diagnostics(p, d, v)
              \/ \E k \in ProgressKinds : handle_file_progress(p, k)
           /\ states'[p] # states[p])
          => states'[p].last_activity = "recent"]_vars

C25_RetryCounterAndExit ==
    [][\A results \in Results :
          retry_round(results)
          => /\ results # retry.prev_results => retry'.retry_count = 0
             /\ results = retry.prev_results
                   => retry'.retry_count = retry.retry_count + 1
             /\ retry'.pc = "returned"
                   <=> (results = retry.prev_results
                        /\ retry'.retry_count = retry.max_retries)
             /\ retry'.pc = "returned" => retry'.results = results]_vars

\* The server gave the same result to every request of the call so far: the
\* result changed once, from nothing to that value, and was stable after.
StableResults ==
    \A i \in 1..Len(retry.history) : retry.history[i] = retry.history[1]

\* C26: against a method whose result changes once and is stable afterwards,
\* send_request_retry with max_retries >= 1 returns the stable value after
\* exactly max_retries + 1 requests.
C26_StableAfterMaxRetriesPlusOne ==
    /\ (retry.pc = "returned" /\ StableResults)
          => /\ Len(retry.history) = retry.max_retries + 1
             /\ retry.results = retry.history[1]
    /\ (retry.pc = "loop" /\ StableResults)
          => Len(retry.history) <= retry.max_retries

\* The ids of the responses waiting on the server's stdout
QueuedResponses ==
    {stdout[i].id : i \in {j \in 1..Len(stdout) : stdout[j].kind = "response"}}

\* C27: send_request_rpc never gives a request an id that is a key of the
\* pending table, the entry of the request is in the table when its frame
\* has been written (and also when the write failed), and every request
\* the server holds or has answered without the answer being handled yet
\* has its entry in the table.
C27_PendingIdsAreFresh ==
    /\ [](inbox \cup QueuedResponses \subseteq pending)
    /\ [][\A id \in Ids :
             send_request_rpc(id, FALSE) =>
                 id \notin pending /\ id \in pending']_vars

\* Two requests are outstanding at the server, each under its own id.
C27_Witness ==
    /\ Cardinality(pending) >= 2
    /\ inbox = pending
    /\ \A id \in pending :
           futures[id] = "unresolved" /\ callers[id] = "awaiting"

\* _run_stdout takes the next message off the stream and dispatches it.
Dispatches == run_stdout /\ stdout_task = "reading" /\ stdout # <<>>

\* The message matches a pending request.
MatchesPending(message) == message.kind = "response" /\ message.id \in pending

\* Only the entry and the future of request id change, the future to
\* outcome.
OnlyThatRequest(id, outcome) ==
    /\ pending' = pending \ {id}
    /\ futures' = [futures EXCEPT ![id] = outcome]

ReadImpls == {"base_client", "client"}

\* What the next read finds on the stream: a whole message, the end of the
\* stream where a header should start, the end of the stream inside a
\* body, or nothing yet.
StreamAt(queue, eof) ==
    IF queue # <<>>
    THEN IF Head(queue) = ShortBody THEN "body_eof" ELSE "message"
    ELSE IF eof THEN "header_eof" ELSE "blocked"

\* The outcome of _read_stdout.  An empty header line: LeanLSPClient calls
\* self.close() and raises EOFError; BaseLeanLSPClient awaits self.close()
\* before its raise, and that await does not end in the reader task (see
\* run_stdout).  A body shorter than Content-Length: BaseLeanLSPClient
\* returns {} and LeanLSPClient gives the bytes to orjson.loads, which
\* raises JSONDecodeError.
ReadStdout(impl, stream) ==
    CASE stream = "message" -> "message"
      [] stream = "header_eof" ->
             IF impl = "client" THEN "EOFError" ELSE "awaits_close"
      [] stream = "body_eof" ->
             IF impl = "client" THEN "JSONDecodeError" ELSE "empty_dict"
      [] OTHER -> "blocked"

\* C29: a read that finds the end of the stream, at a header or inside a
\* message body, raises EOFError in both readers, and a body cut short is
\* never dispatched by the pump as a message.
C29_EndOfStreamIsEofError ==
    /\ [](\A impl \in ReadImpls :
             StreamAt(stdout, stdout_eof) \in {"header_eof", "body_eof"} =>
                 ReadStdout(impl, StreamAt(stdout, stdout_eof)) = "EOFError")
    /\ [][Dispatches => Head(stdout) # ShortBody]_vars

\* get_diagnostics returns for a path without its wait having timed out.
ReturnsDiagnostics(p) ==
    /\ get_diagnostics_return
    /\ loc.gd_path = p
    /\ ~loc.gave_up

\* Opening a fresh file and asking for its diagnostics returns the
\* diagnostics of the file's text.
FreshOpenReturnsDiagnosticsOfText ==
    [][(ReturnsDiagnostics("a") /\ updates["a"] = 0) =>
          result'.value = LeanDiagnostics(states["a"].content)]_vars

\* C30: update_file leaves as the path's content the result of
\* apply_changes_to_text on the content before the call, and the
\* diagnostics get_diagnostics returns after updates are those a fresh
\* open of a file with the same text returns, the diagnostics of that text.
C30_IncrementalEqualsFresh ==
    /\ [][\A ch \in ChangeLists :
             (update_file("a", ch) /\ Tracked("a")) =>
                 states'["a"].content =
                     apply_changes_to_text(states["a"].content, ch)]_vars
    /\ [][(ReturnsDiagnostics("a") /\ updates["a"] > 0) =>
             result'.value = LeanDiagnostics(states["a"].content)]_vars

(***************************************************************************)
(* LeanClientPool                                                          *)
(***************************************************************************)
\* The items handed to map, and what the task returns for each: the task
\* runs on a client of the item's file in the worker's own engine, and
\* its result depends on the item alone.
Items == {"x", "y"}
Task(item) == <<"result of", item>>

ItemLists == UNION {[1..n -> Items] : n \in 1..MaxItems}

\* The number of chunks: ceil(len / batch_size)
NumChunks(n, batch_size) == (n + batch_size - 1) \div batch_size

\* The positions of the items in chunk k.
Chunk(k, n, batch_size) ==
    {i \in 1..n : (k - 1) * batch_size < i /\ i <= k * batch_size}

\* map(fn, items, batch_size) on a pool of num_workers workers: the items
\* are partitioned into chunks.
pool_map(items, batch_size, num_workers) ==
    /\ pool.pc = "idle"
    /\ pool' = [NoMap EXCEPT
                  !.pc = "running",
                  !.items = items,
                  !.batch_size = batch_size,
                  !.num_workers = num_workers,
                  !.chunks = 1..NumChunks(Len(items), batch_size),
                  !.running = [w \in 1..num_workers |-> {}]]
    /\ UNCHANGED <<manager_vars, client_vars, table_vars, retry, lean, other,
                   close_condition>>

\* A worker without a chunk is assigned one of the chunks not yet given
\* out.
pool_assign(w, k) ==
    /\ pool.pc = "running"
    /\ w \in 1..pool.num_workers
    /\ pool.running[w] = {}
    /\ k \in pool.chunks
    /\ pool' = [pool EXCEPT
                  !.chunks = @ \ {k},
                  !.running[w] = Chunk(k, Len(pool.items), pool.batch_size)]
    /\ UNCHANGED <<manager_vars, client_vars, table_vars, retry, lean, other,
                   close_condition>>

\* The least element of a non-empty set of positions.
First(S) == CHOOSE i \in S : \A j \in S : i <= j

\* A worker runs the task on the next item of its chunk: the items of a
\* chunk are processed one after the other, in their order.
pool_work(w) ==
    /\ pool.pc = "running"
    /\ w \in 1..pool.num_workers
    /\ pool.running[w] # {}
    /\ LET i == First(pool.running[w])
       IN pool' = [pool EXCEPT
                     !.running[w] = @ \ {i},
                     !.done = Append(@, <<i, Task(pool.items[i])>>)]
    /\ UNCHANGED <<manager_vars, client_vars, table_vars, retry, lean, other,
                   close_condition>>

\* Mutant of Collected: the results are listed as they were completed.
Collected_AsCompleted(done, n) == [i \in 1..n |-> done[i][2]]

\* The result list of map: the result of each item at the item's position.
Collected(done, n) ==
    [i \in 1..n |->
        LET j == CHOOSE j \in 1..Len(done) : done[j][1] = i IN done[j][2]]

\* Every chunk has been processed: map returns the list of results.
pool_return ==
    /\ pool.pc = "running"
    /\ pool.chunks = {}
    /\ \A w \in 1..pool.num_workers : pool.running[w] = {}
    /\ pool' = [pool EXCEPT
                  !.pc = "returned",
                  !.returned = Collected(pool.done, Len(pool.items))]
    /\ UNCHANGED <<manager_vars, client_vars, table_vars, retry, lean, other,
                   close_condition>>

\* The caller takes the list; the pool is ready for the next map.
pool_idle ==
    /\ pool.pc = "returned"
    /\ pool' = NoMap
    /\ UNCHANGED <<manager_vars, client_vars, table_vars, retry, lean, other,
                   close_condition>>

PoolNext ==
    \/ \E items \in ItemLists, batch_size \in 1..MaxItems,
          num_workers \in 1..MaxWorkers :
           pool_map(items, batch_size, num_workers)
    \/ \E w \in 1..MaxWorkers, k \in 1..MaxItems : pool_assign(w, k)
    \/ \E w \in 1..MaxWorkers : pool_work(w)
    \/ pool_return
    \/ pool_idle

PoolSpec == Init /\ [][PoolNext]_vars

\* C31: map returns one result per item, each at its item's position,
\* whatever the batch size and the number of workers: the list is the
\* task's result for each item in input order.
C31_MapKeepsInputOrder ==
    pool.pc = "returned" =>
        /\ Len(pool.returned) = Len(pool.items)
        /\ \A i \in 1..Len(pool.items) :
               pool.returned[i] = Task(pool.items[i])

\* A map of three different-looking items in chunks of two on two workers
\* has returned, and the last item was completed first.
C31_Witness ==
    /\ pool.pc = "returned"
    /\ pool.items = <<"x", "y", "x">>
    /\ pool.batch_size = 2
    /\ pool.num_workers = 2
    /\ pool.done[1][1] = 3

\* The diagnostics state of a FileState is the one of a document that has
\* just changed.
FreshlyChanged(s) ==
    /\ s.diagnostics = <<>>
    /\ s.processing
    /\ s.error = "None"
    /\ ~s.fatal_error
    /\ ~s.complete
    /\ s.diagnostics_version = s.version - 1

\* C32: when update_file on a tracked path has run, the path's FileState
\* has no diagnostics, processing set, no error, no fatal error, complete
\* unset and diagnostics_version = version - 1, the version is one higher
\* than before, and the call has sent exactly one notification, a
\* didChange that carries the new version.
C32_UpdateResetsAndSendsOneDidChange ==
    [][\A ch \in ChangeLists :
          (update_file("a", ch) /\ Tracked("a")) =>
              /\ FreshlyChanged(states'["a"])
              /\ states'["a"].version = states["a"].version + 1
              /\ sent' = Append(sent, Notification("textDocument/didChange",
                                       "a", states'["a"].version))
              /\ Len(sent') = 1]_vars

\* The second update_file of the open file has just returned: it brought
\* the file to version 2 and sent the one didChange of the call.
C32_Witness ==
    /\ pc = "done"
    /\ result.status = "ok"
    /\ Len(sent) = 1
    /\ sent[1] = Notification("textDocument/didChange", "a", 2)
    /\ states["a"].version = 2
    /\ FreshlyChanged(states["a"])
    /\ updates["a"] = 2

\* The server has elaborated the version of p the client is at, and has
\* published its diagnostics.
ServerFinished(p) ==
    /\ lean[p].version = states[p].version
    /\ lean[p].phase \in {"reported", "done"}

\* C33: get_diagnostics returns the diagnostics of a file as complete only
\* when the server has finished the file's current version; an empty
\* fileProgress the server sent for an earlier version, handled after
\* update_file, does not make it return earlier.
C33_StaleProgressDoesNotComplete ==
    [][(ReturnsDiagnostics("a") /\ states["a"].complete) =>
          ServerFinished("a")]_vars

\* How a call on the file manager may end: normally, or with the error
\* for a file that is not open.
CleanOutcomes == {"none", "ok", "FileNotFoundError"}

\* C34: when close_files on one thread interleaves with open_files,
\* get_diagnostics or close_files on another thread, every call returns
\* normally or raises the not-open error; none raises KeyError because a
\* FileState it had found tracked has been removed.
C34_InterleavedCallsEndCleanly ==
    /\ result.status \in CleanOutcomes
    /\ other.result \in CleanOutcomes

\* The caller thread is inside the wait of a blocking close_files.
InCloseWait == pc \in {"cf_wait", "cf_loop", "cf_asleep", "cf_woken"}

\* C35: once close_ready is set for every path of a blocking close_files,
\* the call leaves its wait, whether or not the deadline ever passes and
\* however the waiting thread and the notification handler interleave.
C35_ReadyEndsTheWait ==
    (InCloseWait /\ AllCloseReady(loc.close_paths)) ~> (pc = "cf_remove")

C37_TablesShareTheirKeys ==
    /\ Range(files_finished) = files_content
    /\ files_diagnostics = files_content
    /\ files_last_update = files_content

\* How many of the last results of the running call were the same: the
\* length of the run of equal results that ends the history.
RECURSIVE TrailingEqual(_)
TrailingEqual(h) ==
    IF Len(h) <= 1 THEN Len(h)
    ELSE IF h[Len(h)] # h[Len(h) - 1] THEN 1
    ELSE 1 + TrailingEqual(SubSeq(h, 1, Len(h) - 1))

\* The number of repeats of a result at which the loop's exit test of
\* the running call first succeeds.
RepeatsNeeded ==
    LET N == {n \in 1..(MaxRetries + 1) :
                 RetriesExhausted(retry.impl, n, retry.max_retries)}
    IN CHOOSE n \in N : \A m \in N : n <= m

\* C38: send_request_retry returns only when the server has given the same
\* result to its last requests (the first of them and as many repeats as
\* the exit test asks for), and has returned as soon as that is so; the
\* number of requests before that is not bounded, and while each result
\* differs from the one before the call does not return.
C38_ReturnsExactlyWhenResultIsStable ==
    /\ retry.pc = "returned"
          => TrailingEqual(retry.history) = RepeatsNeeded + 1
    /\ retry.pc = "loop"
          => TrailingEqual(retry.history) <= RepeatsNeeded

\* C38 witness: the call is still in its loop after MaxRequests requests,
\* each with a result that differs from the one before.
C38_Witness ==
    /\ retry.pc = "loop"
    /\ Len(retry.history) = MaxRequests
    /\ \A i \in 2..Len(retry.history) :
           retry.history[i] # retry.history[i - 1]

\* C39: while a path stays open the stale-imports rebuild is applied to it
\* at most once, however many "Imports are out of date" diagnostics
\* arrive, and a rebuild adds exactly one to the path's version and resets
\* its diagnostics state.
C39_RebuildOncePerSession ==
    /\ [](\A p \in Paths : rebuilds[p] <= 1)
    /\ [][(rebuild_stale_imports /\ Tracked(reader_path))
             => /\ states'[reader_path].version =
                       states[reader_path].version + 1
                /\ FreshlyChanged(states'[reader_path])]_vars
====
